---- MODULE Spec2Model ----
(***************************************************************************)
(* A model of the slab-based kernel heap of injected_slab_allocators:      *)
(* the Slab (ostd/heap/slab.rs), the early heap (ostd/heap/early_heap.rs), *)
(* the dispatcher HeapAlloc (ostd/heap/mod.rs) and the single-lock cache   *)
(* SinglePageSlabCache (kernel/slab_v1.rs) it is injected with; and, on    *)
(* their own, the per-CPU caches ScalableSlabCache (kernel/slab_v2.rs) and *)
(* LocklessSlabCache (kernel/slab_v3.rs).                                  *)
(*                                                                         *)
(* Every CPU runs one caller that issues alloc, dealloc and                *)
(* inject_slab_allocators calls.  A call is a sequence of steps; a step    *)
(* holds at most one access to shared state together with the local        *)
(* computation around it.  A critical section under a spin lock is one     *)
(* step, taken after the step that acquires the lock.  Atomics are         *)
(* sequentially consistent.  A panic stops the calling context.  A         *)
(* debug_assert! is compiled in or not with the build profile: where one   *)
(* fails, the step either panics or goes on.                               *)
(***************************************************************************)
EXTENDS Integers, Sequences, FiniteSets, TLC

(***************************************************************************)
(* Bounds of the model.                                                    *)
(***************************************************************************)
MaxOwned == 2

\* The number of conversions of slots into Box or Arc values.
MaxBoxed == 2

(***************************************************************************)
(* Program constants.  The largest class is the field size2048 of          *)
(* SlabAllocators; MAX_SLAB_SLOT is the name alloc and dealloc compare the *)
(* size with.                                                              *)
(***************************************************************************)
PAGE_SIZE == 4096
MIN_SLAB_SLOT_SIZE == 16
MAX_SLAB_SLOT_SIZE == 2048
MAX_SLAB_SLOT == 2048
NR_EARLY_HEAP_PAEGS == 256
U16 == 65536

\* slab::MAX_SLAB_SLOT_SIZE as the static_assert! of mod.rs:23 pins it.  The
\* constant is not defined in the source; 2028 is the only value the build
\* accepts, and it is the bound of determine_slot_size's debug_assert!.
slab_MAX_SLAB_SLOT_SIZE == 2028

NULL == 0
NoCpu == -1

\* The CPUs, each running one caller.
Cpus == {0, 1}

\* The request sizes and alignments the callers draw from.
Sizes == {2047, 2048, 2049}
Aligns == {8, 4096}

\* usize::next_power_of_two: the smallest power of two >= n.
RECURSIVE NextPow2From(_, _)
NextPow2From(p, n) == IF p >= n THEN p ELSE NextPow2From(2 * p, n)

next_power_of_two(n) == NextPow2From(1, n)

\* debug_assert!(obj_size <= MAX_SLAB_SLOT_SIZE) of determine_slot_size.
determine_slot_size_debug_assert(obj_size) ==
    obj_size <= slab_MAX_SLAB_SLOT_SIZE

determine_slot_size(obj_size) ==
    IF obj_size <= MIN_SLAB_SLOT_SIZE
    THEN MIN_SLAB_SLOT_SIZE
    ELSE next_power_of_two(obj_size)

\* The fields size16 .. size2048 of SlabAllocators: one slot size per class.
RECURSIVE ClassesFrom(_)
ClassesFrom(k) ==
    IF k > MAX_SLAB_SLOT_SIZE THEN {} ELSE {k} \cup ClassesFrom(2 * k)

SlotSizes == ClassesFrom(MIN_SLAB_SLOT_SIZE)

ClassIndex(k) == Cardinality({j \in SlotSizes : j < k})

\* The classes whose slabs and early-heap free lists are part of the state.
Classes == {1024, 2048}

(***************************************************************************)
(* The address space: the static early-heap region, then one page per      *)
(* slab, then the pages of the external page allocator.                    *)
(***************************************************************************)
heap_page_start == 65536

heap_page_end == heap_page_start + NR_EARLY_HEAP_PAEGS * PAGE_SIZE

\* The mutant of contains_ptr: the lower bound is compared strictly.
contains_ptr_strict(ptr) ==
    heap_page_start < ptr /\ ptr < heap_page_end

contains_ptr(ptr) ==
    heap_page_start <= ptr /\ ptr < heap_page_end

SlabPage(s) == heap_page_end + ClassIndex(s) * PAGE_SIZE

PageAllocStart == heap_page_end + Cardinality(SlotSizes) * PAGE_SIZE

nr_total_slots(s) == PAGE_SIZE \div s

SlabSlots(s) == {SlabPage(s) + i * s : i \in 0 .. (nr_total_slots(s) - 1)}

AllSlabSlots == UNION {SlabSlots(s) : s \in Classes}

\* FreeSlabSlot::slab_meta: the slab whose page holds the slot.
SlabOf(ptr) ==
    CHOOSE s \in Classes : SlabPage(s) <= ptr /\ ptr < SlabPage(s) + PAGE_SIZE

\* EarlyHeapPages: the address lies in one of the pages of the static array.
InEarlyPages(ptr) ==
    ((ptr - heap_page_start) \div PAGE_SIZE) \in 0 .. (NR_EARLY_HEAP_PAEGS - 1)

(***************************************************************************)
(* The per-CPU caches of slab_v2.rs and slab_v3.rs, for one slot size:     *)
(* every CPU has a SinglePageSlabCache whose slab records it as owner_cpu. *)
(* The pages of these slabs come after the first page of the page          *)
(* allocator.                                                              *)
(***************************************************************************)
LOCAL_SLOT_SIZE == MAX_SLAB_SLOT_SIZE

CpuSlabPage(cpu) == PageAllocStart + (1 + cpu) * PAGE_SIZE

CpuSlabSlots(cpu) ==
    {CpuSlabPage(cpu) + i * LOCAL_SLOT_SIZE :
        i \in 0 .. (nr_total_slots(LOCAL_SLOT_SIZE) - 1)}

AllCpuSlabSlots == UNION {CpuSlabSlots(cpu) : cpu \in Cpus}

\* SlabExt.owner_cpu of the slab whose page holds the slot.
owner_cpu(ptr) ==
    CHOOSE cpu \in Cpus :
        CpuSlabPage(cpu) <= ptr /\ ptr < CpuSlabPage(cpu) + PAGE_SIZE

\* Slab::alloc on a CPU's slab links all the slots of its page.
CpuLinkedNext(ptr) ==
    IF ptr + LOCAL_SLOT_SIZE < CpuSlabPage(owner_cpu(ptr)) + PAGE_SIZE
    THEN ptr + LOCAL_SLOT_SIZE ELSE NULL

EarlyPageSlots(page, k) ==
    [i \in 1 .. (PAGE_SIZE \div k) |->
        heap_page_start + page * PAGE_SIZE + (i - 1) * k]

VARIABLES
    pc,                  \* the step each CPU's caller is at
    call,                \* the arguments, locals and result of its call
    owned,               \* the allocations the callers hold: [ptr, size]
    boxes,               \* the Box and Arc values made of slots
    nr_into_box,         \* into_box and into_arc calls so far
    have_injected_slabs, \* HeapAlloc.have_injected_slabs
    once_state,          \* the Once of HeapAllocBackend.slab_caches
    slab_caches,         \* the value in the Once: who passed the set
    nr_inject_returns,   \* inject calls that returned normally
    strategy,            \* the kernel module whose init() builds the set
    early_lock,          \* the SpinLock around EarlyHeapAlloc
    early_free,          \* EarlyHeapAlloc.free_list_16 .. free_list_2048
    nr_used_pages,       \* NR_USED_PAGES
    slab_lock,           \* SinglePageSlabCache.slab, the lock, per class
    free_list,           \* SlabMeta.free_list, per slab
    slot_next,           \* LinkedSlabSlot.next, per slot
    nr_inuse_slots,      \* SlabMeta.nr_inuse_slots, per slab
    ever_recycled,       \* the slabs recycle_slot was called on
    cpu_slab_lock,       \* LOCAL_SLAB_CACHES: the lock of each CPU's cache
    cpu_free_list,       \* SlabMeta.free_list of each CPU's slab
    cpu_slot_next,       \* LinkedSlabSlot.next of the slots of those slabs
    cpu_nr_inuse_slots,  \* SlabMeta.nr_inuse_slots of each CPU's slab
    LOCAL_FREE_LIST      \* the FreeSlabSlotList of each CPU (slab_v3.rs)

vars == <<pc, call, owned, boxes, nr_into_box, have_injected_slabs, once_state, slab_caches,
          nr_inject_returns, strategy, early_lock, early_free,
          nr_used_pages, slab_lock, free_list, slot_next, nr_inuse_slots,
          ever_recycled, cpu_slab_lock, cpu_free_list, cpu_slot_next,
          cpu_nr_inuse_slots, LOCAL_FREE_LIST>>

boxVars == <<boxes, nr_into_box>>

injectVars == <<have_injected_slabs, once_state, slab_caches,
                nr_inject_returns, strategy>>

earlyVars == <<early_lock, early_free, nr_used_pages>>

slabVars == <<slab_lock, free_list, slot_next, nr_inuse_slots, ever_recycled>>

percpuVars == <<cpu_slab_lock, cpu_free_list, cpu_slot_next,
                cpu_nr_inuse_slots, LOCAL_FREE_LIST>>

NoCall ==
    [op |-> "none", size |-> 0, slot_size |-> 0, ptr |-> NULL,
     via |-> "none", backend |-> "none", started_injected |-> FALSE,
     cpu |-> NoCpu, on_cpu |-> NoCpu, irq_guard |-> FALSE]

\* Slab::alloc links all the slots of the page into the free list.
LinkedNext(ptr) ==
    LET s == SlabOf(ptr)
    IN IF ptr + s < SlabPage(s) + PAGE_SIZE THEN ptr + s ELSE NULL

\* The kernels of src/kernel: each init() builds its set of slab caches.
Strategies == {"slab_v1", "slab_v2", "slab_v3"}

\* The state after construction, in a kernel of src/kernel.
\* injected_by is the context whose call of inject_slab_cache_array has
\* returned, NoCpu before any such call.
InitState(kernel, injected_by) ==
    /\ strategy = kernel
    /\ pc = [c \in Cpus |-> "idle"]
    /\ call = [c \in Cpus |-> NoCall]
    /\ owned = {}
    /\ boxes = {}
    /\ nr_into_box = 0
    /\ have_injected_slabs = (injected_by # NoCpu)
    /\ once_state = IF injected_by # NoCpu THEN "Complete" ELSE "Incomplete"
    /\ slab_caches = injected_by
    /\ nr_inject_returns = IF injected_by # NoCpu THEN 1 ELSE 0
    /\ early_lock = NoCpu
    /\ early_free = [k \in Classes |-> <<>>]
    /\ nr_used_pages = 0
    /\ slab_lock = [s \in Classes |-> NoCpu]
    /\ free_list = [s \in Classes |-> SlabPage(s)]
    /\ slot_next = [p \in AllSlabSlots |-> LinkedNext(p)]
    /\ nr_inuse_slots = [s \in Classes |-> 0]
    /\ ever_recycled = {}
    /\ cpu_slab_lock = [cpu \in Cpus |-> NoCpu]
    /\ cpu_free_list = [cpu \in Cpus |-> CpuSlabPage(cpu)]
    /\ cpu_slot_next = [p \in AllCpuSlabSlots |-> CpuLinkedNext(p)]
    /\ cpu_nr_inuse_slots = [cpu \in Cpus |-> 0]
    /\ LOCAL_FREE_LIST = [cpu \in Cpus |-> <<>>]

\* The heap and the caches of a kernel as they are built, before the
\* kernel's init() has injected the caches.
InitKernel(kernel) == InitState(kernel, NoCpu)

Init == InitKernel("slab_v1")

(***************************************************************************)
(* Panics and returns.                                                     *)
(***************************************************************************)
\* The call returns: the guards it holds are dropped.
Finish(c, via, ptr) ==
    /\ pc' = [pc EXCEPT ![c] = "done"]
    /\ call' = [call EXCEPT ![c].via = via, ![c].ptr = ptr,
                            ![c].irq_guard = FALSE]

\* What a panic does with the values the call holds: the build stops
\* there (panic = abort), or it unwinds and drops them.
PanicUnwinds == BOOLEAN

\* The panic of a call: the irq guard the call holds is dropped where the
\* panic unwinds, and stays where the build stops.
PanicWith(c, op, why, unwinds) ==
    /\ pc' = [pc EXCEPT ![c] = "panicked"]
    /\ call' = [call EXCEPT ![c] =
          [NoCall EXCEPT !.op = op, !.via = why,
                         !.irq_guard = call[c].irq_guard /\ ~unwinds]]

Panic(c, op, why) ==
    \E unwinds \in PanicUnwinds : PanicWith(c, op, why, unwinds)

\* The pointers a caller holds, or that a call in progress carries.
OwnedPtrs == {o.ptr : o \in owned}

NrOutstanding ==
    Cardinality(owned)
      + Cardinality({c \in Cpus : call[c].op = "alloc" /\ pc[c] # "panicked"
                                    /\ call[c].via # "page"})

(***************************************************************************)
(* HeapAlloc::inject_slab_allocators, mod.rs:72-80.                        *)
(***************************************************************************)

\* The mutant of InjectCallOnce: the flag is published by the caller that
\* starts the initialisation, before the set is in the Once.
InjectCallOnceFlagFirst(c) ==
    /\ pc[c] = "idle"
    /\ call' = [call EXCEPT ![c] = [NoCall EXCEPT !.op = "inject",
                     !.started_injected = have_injected_slabs]]
    /\ IF once_state = "Incomplete"
       THEN /\ once_state' = "Running"
            /\ have_injected_slabs' = TRUE
            /\ pc' = [pc EXCEPT ![c] = "inject_init"]
       ELSE /\ UNCHANGED <<once_state, have_injected_slabs>>
            /\ pc' = [pc EXCEPT ![c] =
                  IF once_state = "Running" THEN "inject_once_wait"
                  ELSE "inject_swap"]
    /\ UNCHANGED <<owned, boxVars, slab_caches, nr_inject_returns,
                   earlyVars, slabVars>>
    /\ UNCHANGED <<strategy, percpuVars>>

\* Once::call_once: the first caller runs the closure, a caller that finds
\* the closure running enters and waits for it (InjectOnceWait), a later
\* caller skips it.
InjectCallOnce(c) ==
    /\ pc[c] = "idle"
    /\ call' = [call EXCEPT ![c] = [NoCall EXCEPT !.op = "inject",
                     !.started_injected = have_injected_slabs]]
    /\ IF once_state = "Incomplete"
       THEN /\ once_state' = "Running"
            /\ pc' = [pc EXCEPT ![c] = "inject_init"]
       ELSE /\ UNCHANGED once_state
            /\ pc' = [pc EXCEPT ![c] =
                  IF once_state = "Running" THEN "inject_once_wait"
                  ELSE "inject_swap"]
    /\ UNCHANGED <<owned, boxVars, have_injected_slabs, slab_caches, nr_inject_returns,
                   earlyVars, slabVars>>
    /\ UNCHANGED <<strategy, percpuVars>>

\* The wait of call_once for the closure another context runs: the caller
\* spins until the Once is complete.
InjectOnceWait(c) ==
    /\ pc[c] = "inject_once_wait"
    /\ once_state # "Running"
    /\ pc' = [pc EXCEPT ![c] = "inject_swap"]
    /\ UNCHANGED <<call, owned, boxVars, injectVars, earlyVars, slabVars>>
    /\ UNCHANGED percpuVars

\* The closure of call_once: the set the caller passed goes into the Once.
InjectInit(c) ==
    /\ pc[c] = "inject_init"
    /\ slab_caches' = c
    /\ once_state' = "Complete"
    /\ pc' = [pc EXCEPT ![c] = "inject_swap"]
    /\ UNCHANGED <<call, owned, boxVars, have_injected_slabs,
                   nr_inject_returns, earlyVars, slabVars>>
    /\ UNCHANGED <<strategy, percpuVars>>

\* The mutant of InjectSwap: a load followed by a store in place of the
\* swap, so that the old value is read as it was when the call started.
InjectSwapLoadStore(c) ==
    /\ pc[c] = "inject_swap"
    /\ have_injected_slabs' = TRUE
    /\ IF call[c].started_injected
       THEN /\ Panic(c, "inject", "double_inject")
            /\ UNCHANGED nr_inject_returns
       ELSE /\ Finish(c, "ok", NULL)
            /\ nr_inject_returns' = nr_inject_returns + 1
    /\ UNCHANGED <<owned, boxVars, once_state, slab_caches,
                   earlyVars, slabVars>>
    /\ UNCHANGED <<strategy, percpuVars>>

\* have_injected_slabs.swap(true, AcqRel), and the panic on an old true.
InjectSwap(c) ==
    /\ pc[c] = "inject_swap"
    /\ have_injected_slabs' = TRUE
    /\ IF have_injected_slabs
       THEN /\ Panic(c, "inject", "double_inject")
            /\ UNCHANGED nr_inject_returns
       ELSE /\ Finish(c, "ok", NULL)
            /\ nr_inject_returns' = nr_inject_returns + 1
    /\ UNCHANGED <<owned, boxVars, once_state, slab_caches,
                   earlyVars, slabVars>>
    /\ UNCHANGED <<strategy, percpuVars>>

(***************************************************************************)
(* HeapAlloc::current_backend, mod.rs:82-92.                               *)
(***************************************************************************)
current_backend ==
    IF have_injected_slabs
    THEN IF once_state = "Complete" THEN "slab" ELSE "unwrap_none"
    ELSE "early"

\* layout.size >= MAX_SLAB_SLOT, mod.rs:97 and mod.rs:136.
IsOversized(size) == size >= MAX_SLAB_SLOT

\* The external page allocator is not part of the state: a delegated alloc
\* returns a page of it, and the callers hold pages of every oversized size
\* to pass to dealloc.
PagePtr == PageAllocStart

PageAllocs == {[ptr |-> PagePtr, size |-> n] : n \in {m \in Sizes : m >= MAX_SLAB_SLOT_SIZE}}

(***************************************************************************)
(* EarlyHeapAlloc, early_heap.rs:23-48.  The bodies are left to do in the  *)
(* source; they follow the design: pop the free list of the class, carve a *)
(* fresh page into slots when it is empty, fail when no page is left; push *)
(* the slot back on dealloc.                                               *)
(***************************************************************************)
\* The mutant of EarlyCanCarve: one page too many is taken for unused.
EarlyCanCarveOneMore == nr_used_pages <= NR_EARLY_HEAP_PAEGS

EarlyCanCarve == nr_used_pages < NR_EARLY_HEAP_PAEGS

EarlyAllocPtr(k) ==
    IF early_free[k] # <<>> THEN Head(early_free[k])
    ELSE IF EarlyCanCarve THEN EarlyPageSlots(nr_used_pages, k)[1]
    ELSE NULL

EarlyAllocFree(k) ==
    IF early_free[k] # <<>> THEN Tail(early_free[k])
    ELSE IF EarlyCanCarve THEN Tail(EarlyPageSlots(nr_used_pages, k))
    ELSE <<>>

EarlyAllocUsed(k) ==
    IF early_free[k] = <<>> /\ EarlyCanCarve
    THEN (nr_used_pages + 1) % U16
    ELSE nr_used_pages

EarlyDeallocFree(k, ptr) == <<ptr>> \o early_free[k]

(***************************************************************************)
(* Slab::new_slot, slab.rs:22-44, and Slab::recycle_slot, slab.rs:46-71.   *)
(***************************************************************************)

\* The mutant of new_slot_head: the head is stored back unchanged.
new_slot_head_stale(s) == free_list[s]

\* new_head_ptr: the next link of the head slot.
new_slot_head(s) == slot_next[free_list[s]]

\* The mutant of new_slot_count: the counter is left alone.
new_slot_count_kept(n) == n

\* nr_inuse_slots.fetch_add(1, Relaxed) on an AtomicU16.
new_slot_count(n) == (n + 1) % U16

\* Drop for FreeSlabSlot: nr_inuse_slots.fetch_sub(1, Release).
FreeSlabSlot_drop(n) == (n - 1) % U16

\* recycle_slot never stores new_head_ptr into free_list: the head stays.
recycle_slot_head(s, ptr) == free_list[s]

\* old_count of the fetch_sub in recycle_slot, which comes after
\* drop(free_slot) has run the decrement of Drop for FreeSlabSlot.
recycle_slot_old_count(n) == FreeSlabSlot_drop(n)

recycle_slot_count(n) == (recycle_slot_old_count(n) - 1) % U16

\* The length of the list free_list[s] heads.
RECURSIVE ChainLen(_, _)
ChainLen(p, fuel) ==
    IF p = NULL \/ fuel = 0 THEN 0 ELSE 1 + ChainLen(slot_next[p], fuel - 1)

FreeLen(s) == ChainLen(free_list[s], nr_total_slots(s) + 1)

RECURSIVE ChainSet(_, _)
ChainSet(p, fuel) ==
    IF p = NULL \/ fuel = 0 THEN {} ELSE {p} \cup ChainSet(slot_next[p], fuel - 1)

FreeSet(s) == ChainSet(free_list[s], nr_total_slots(s) + 1)

\* Slab::new_slot on slab s: what it returns and what it changes.
new_slot_result(s) == free_list[s]

Slab_new_slot(s) ==
    /\ IF free_list[s] = NULL
       THEN UNCHANGED <<free_list, nr_inuse_slots>>
       ELSE /\ free_list' = [free_list EXCEPT ![s] = new_slot_head(s)]
            /\ nr_inuse_slots' = [nr_inuse_slots EXCEPT
                  ![s] = new_slot_count(nr_inuse_slots[s])]
    /\ UNCHANGED <<slot_next, ever_recycled>>

\* The assert! of recycle_slot: the slot's slab is the slab it is returned to.
recycle_slot_assert(s, ptr) == SlabOf(ptr) = s

\* The debug_assert! of recycle_slot on old_count.
recycle_slot_debug_assert(s) == recycle_slot_old_count(nr_inuse_slots[s]) >= 1

\* Slab::recycle_slot on slab s, past its assert!: what it changes.
Slab_recycle_slot(s, ptr) ==
    /\ ever_recycled' = ever_recycled \cup {s}
    /\ slot_next' = [slot_next EXCEPT ![ptr] = free_list[s]]
    /\ free_list' = [free_list EXCEPT ![s] = recycle_slot_head(s, ptr)]
    /\ nr_inuse_slots' = [nr_inuse_slots EXCEPT
          ![s] = recycle_slot_count(nr_inuse_slots[s])]

(***************************************************************************)
(* HeapAlloc::alloc, mod.rs:96-133.                                        *)
(***************************************************************************)
AllocBegin(c, size, align) ==
    /\ pc[c] = "idle"
    /\ NrOutstanding < MaxOwned
    /\ LET base == [NoCall EXCEPT !.op = "alloc", !.size = size,
                        !.started_injected = have_injected_slabs]
           slot_size == determine_slot_size(size)
           frame == [base EXCEPT !.slot_size = slot_size]
       IN IF IsOversized(size)
          THEN /\ pc' = [pc EXCEPT ![c] = "done"]
               /\ call' = [call EXCEPT ![c] =
                     [base EXCEPT !.via = "page", !.ptr = PagePtr]]
          ELSE
          \/ /\ ~determine_slot_size_debug_assert(size)
             /\ Panic(c, "alloc", "debug_assert")
          \/ IF slot_size % align # 0
             THEN Panic(c, "alloc", "align")
             ELSE IF current_backend = "unwrap_none"
             THEN Panic(c, "alloc", "unwrap_none")
             ELSE /\ pc' = [pc EXCEPT ![c] =
                        IF current_backend = "early"
                        THEN "alloc_early_lock" ELSE "alloc_slab_lock"]
                  /\ call' = [call EXCEPT ![c] =
                        [frame EXCEPT !.backend = current_backend]]
    /\ UNCHANGED <<owned, boxVars, injectVars, earlyVars, slabVars>>
    /\ UNCHANGED percpuVars

\* early_heap.lock()
AllocEarlyLock(c) ==
    /\ pc[c] = "alloc_early_lock"
    /\ early_lock = NoCpu
    /\ early_lock' = c
    /\ pc' = [pc EXCEPT ![c] = "alloc_early"]
    /\ UNCHANGED <<call, owned, boxVars, injectVars, early_free, nr_used_pages,
                   slabVars>>
    /\ UNCHANGED percpuVars

\* early_heap.alloc(slot_size), and the guard goes out of scope.
AllocEarly(c) ==
    /\ pc[c] = "alloc_early"
    /\ early_lock = c
    /\ LET k == call[c].slot_size
       IN /\ early_free' = [early_free EXCEPT ![k] = EarlyAllocFree(k)]
          /\ nr_used_pages' = EarlyAllocUsed(k)
          /\ Finish(c, "early", EarlyAllocPtr(k))
    /\ early_lock' = NoCpu
    /\ UNCHANGED <<owned, boxVars, injectVars, slabVars>>
    /\ UNCHANGED percpuVars

\* irq::disable_local(), SinglePageSlabCache::alloc -> new_slot: slab.lock()
\* The mutant of AllocSlabLock: the lock is taken without waiting for it
\* to be free.
AllocSlabLockNoWait(c) ==
    /\ pc[c] = "alloc_slab_lock"
    /\ slab_lock' = [slab_lock EXCEPT ![call[c].slot_size] = c]
    /\ pc' = [pc EXCEPT ![c] = "alloc_slab"]
    /\ UNCHANGED <<call, owned, boxVars, injectVars, earlyVars, free_list, slot_next,
                   nr_inuse_slots, ever_recycled>>
    /\ UNCHANGED percpuVars

AllocSlabLock(c) ==
    /\ pc[c] = "alloc_slab_lock"
    /\ slab_lock[call[c].slot_size] = NoCpu
    /\ slab_lock' = [slab_lock EXCEPT ![call[c].slot_size] = c]
    /\ pc' = [pc EXCEPT ![c] = "alloc_slab"]
    /\ UNCHANGED <<call, owned, boxVars, injectVars, earlyVars, free_list, slot_next,
                   nr_inuse_slots, ever_recycled>>
    /\ UNCHANGED percpuVars

\* Slab::new_slot under the lock, slab_v1.rs:51-55: the guard is dropped
\* as new_slot returns its Option to alloc, which has yet to call
\* into_raw on it.
AllocSlab(c) ==
    /\ pc[c] = "alloc_slab"
    /\ LET s == call[c].slot_size
       IN /\ slab_lock[s] = c
          /\ slab_lock' = [slab_lock EXCEPT ![s] = NoCpu]
          /\ Slab_new_slot(s)
          /\ pc' = [pc EXCEPT ![c] = "alloc_into_raw"]
          /\ call' = [call EXCEPT ![c].ptr = new_slot_result(s)]
    /\ UNCHANGED <<owned, boxVars, injectVars, earlyVars>>
    /\ UNCHANGED percpuVars

\* free_slab_slot.into_raw(), mod.rs:121-132, and the return of alloc.
\* alloc calls into_raw on the Option without a test for None:
\* FreeSlabSlot::into_raw takes a slot, so on None the call either comes
\* out as a null pointer or stops where the slot is unwrapped.
AllocIntoRaw(c) ==
    /\ pc[c] = "alloc_into_raw"
    /\ \/ Finish(c, "slab", call[c].ptr)
       \/ /\ call[c].ptr = NULL
          /\ Panic(c, "alloc", "none_into_raw")
    /\ UNCHANGED <<owned, boxVars, injectVars, earlyVars, slabVars>>
    /\ UNCHANGED percpuVars

\* The call returns to its caller.
Return(c) ==
    /\ pc[c] = "done"
    /\ pc' = [pc EXCEPT ![c] = "idle"]
    /\ call' = [call EXCEPT ![c] = NoCall]
    /\ UNCHANGED boxVars
    /\ owned' = IF call[c].op = "alloc" /\ call[c].ptr \notin {NULL, PagePtr}
                THEN owned \cup {[ptr |-> call[c].ptr, size |-> call[c].size]}
                ELSE owned
    /\ UNCHANGED <<injectVars, earlyVars, slabVars>>
    /\ UNCHANGED percpuVars

(***************************************************************************)
(* HeapAlloc::dealloc, mod.rs:135-182.                                     *)
(***************************************************************************)
DeallocBegin(c, o) ==
    /\ pc[c] = "idle"
    /\ o \in owned \cup PageAllocs
    /\ UNCHANGED boxVars
    /\ owned' = owned \ {o}
    /\ LET base == [NoCall EXCEPT !.op = "dealloc", !.size = o.size,
                        !.ptr = o.ptr]
           frame == [base EXCEPT !.slot_size = determine_slot_size(o.size)]
       IN IF IsOversized(o.size)
          THEN /\ pc' = [pc EXCEPT ![c] = "done"]
               /\ call' = [call EXCEPT ![c] = [base EXCEPT !.via = "page"]]
          ELSE
          \/ /\ ~determine_slot_size_debug_assert(o.size)
             /\ Panic(c, "dealloc", "debug_assert")
          \/ IF current_backend = "unwrap_none"
             THEN Panic(c, "dealloc", "unwrap_none")
             ELSE /\ pc' = [pc EXCEPT ![c] =
                        IF current_backend = "early"
                        THEN "dealloc_early_lock" ELSE "dealloc_check"]
                  /\ call' = [call EXCEPT ![c] =
                        [frame EXCEPT !.backend = current_backend]]
    /\ UNCHANGED <<injectVars, earlyVars, slabVars>>
    /\ UNCHANGED percpuVars

\* early_heap.lock() in the EarlyHeap arm
DeallocEarlyLock(c) ==
    /\ pc[c] = "dealloc_early_lock"
    /\ early_lock = NoCpu
    /\ early_lock' = c
    /\ pc' = [pc EXCEPT ![c] = "dealloc_early"]
    /\ UNCHANGED <<call, owned, boxVars, injectVars, early_free, nr_used_pages,
                   slabVars>>
    /\ UNCHANGED percpuVars

\* early_heap.dealloc(slot_ptr, slot_size); the arm does not return, the
\* guard goes out of scope and the call goes on to the contains_ptr test.
DeallocEarly(c) ==
    /\ pc[c] = "dealloc_early"
    /\ early_lock = c
    /\ early_free' = [early_free EXCEPT ![call[c].slot_size] =
            EarlyDeallocFree(call[c].slot_size, call[c].ptr)]
    /\ early_lock' = NoCpu
    /\ pc' = [pc EXCEPT ![c] = "dealloc_check"]
    /\ call' = [call EXCEPT ![c].via = "early"]
    /\ UNCHANGED <<owned, boxVars, injectVars, nr_used_pages, slabVars>>
    /\ UNCHANGED percpuVars

\* The mutant of DeallocCheck: a pointer of the early heap met with the
\* slab caches as the backend is pushed back on the early heap's free list.
DeallocCheckFreeing(c) ==
    /\ pc[c] = "dealloc_check"
    /\ IF contains_ptr(call[c].ptr)
       THEN /\ Finish(c, "early", call[c].ptr)
            /\ early_free' =
                 IF call[c].backend = "slab"
                 THEN [early_free EXCEPT ![call[c].slot_size] =
                         EarlyDeallocFree(call[c].slot_size, call[c].ptr)]
                 ELSE early_free
       ELSE /\ pc' = [pc EXCEPT ![c] = "recycle_lock"]
            /\ UNCHANGED <<call, early_free>>
    /\ UNCHANGED <<owned, boxVars, injectVars, early_lock, nr_used_pages, slabVars>>
    /\ UNCHANGED percpuVars

\* if early_heap::contains_ptr(slot_ptr) { return; } else the slot handle
\* is made from the pointer and its slab's recycle callback is called.
DeallocCheck(c) ==
    /\ pc[c] = "dealloc_check"
    /\ IF contains_ptr(call[c].ptr)
       THEN Finish(c, IF call[c].backend = "early" THEN "early" ELSE "leak",
                   call[c].ptr)
       ELSE /\ pc' = [pc EXCEPT ![c] = "recycle_lock"]
            /\ UNCHANGED call
    /\ UNCHANGED <<owned, boxVars, injectVars, earlyVars, slabVars>>
    /\ UNCHANGED percpuVars

\* recycle_slot of slab_v1.rs:19-25 -> SinglePageSlabCache::recycle_slot:
\* slab.lock() of the cache of the slot's slab.
RecycleLock(c) ==
    /\ pc[c] = "recycle_lock"
    /\ call[c].ptr \in AllSlabSlots
    /\ slab_lock[SlabOf(call[c].ptr)] = NoCpu
    /\ slab_lock' = [slab_lock EXCEPT ![SlabOf(call[c].ptr)] = c]
    /\ pc' = [pc EXCEPT ![c] = "recycle"]
    /\ UNCHANGED <<call, owned, boxVars, injectVars, earlyVars, free_list, slot_next,
                   nr_inuse_slots, ever_recycled>>
    /\ UNCHANGED percpuVars

\* Slab::recycle_slot under the lock.  The guard of slab_v1.rs:58 is
\* dropped when recycle_slot returns; on a panic it is dropped where the
\* panic unwinds, and stays where the build stops.
Recycle(c) ==
    /\ pc[c] = "recycle"
    /\ LET ptr == call[c].ptr
           s == SlabOf(ptr)
           released == [slab_lock EXCEPT ![s] = NoCpu]
       IN /\ slab_lock[s] = c
          /\ IF recycle_slot_assert(s, ptr)
             THEN /\ Slab_recycle_slot(s, ptr)
                  /\ \/ /\ Finish(c, "recycle", ptr)
                        /\ slab_lock' = released
                     \/ /\ ~recycle_slot_debug_assert(s)
                        /\ \E unwinds \in PanicUnwinds :
                              /\ PanicWith(c, "dealloc", "debug_assert",
                                           unwinds)
                              /\ slab_lock' = IF unwinds THEN released
                                              ELSE slab_lock
             ELSE /\ UNCHANGED <<free_list, slot_next, ever_recycled>>
                  /\ \E unwinds \in PanicUnwinds :
                        /\ nr_inuse_slots' =
                              IF unwinds
                              THEN [nr_inuse_slots EXCEPT
                                       ![SlabOf(ptr)] = FreeSlabSlot_drop(@)]
                              ELSE nr_inuse_slots
                        /\ slab_lock' = IF unwinds THEN released
                                        ELSE slab_lock
                        /\ PanicWith(c, "dealloc", "assert", unwinds)
    /\ UNCHANGED <<owned, boxVars, injectVars, earlyVars>>
    /\ UNCHANGED percpuVars

(***************************************************************************)
(* The specification.                                                      *)
(***************************************************************************)
Next ==
    \E c \in Cpus :
        \/ InjectCallOnce(c)
        \/ InjectOnceWait(c)
        \/ InjectInit(c)
        \/ InjectSwap(c)
        \/ \E size \in Sizes, align \in Aligns : AllocBegin(c, size, align)
        \/ AllocEarlyLock(c)
        \/ AllocEarly(c)
        \/ AllocSlabLock(c)
        \/ AllocSlab(c)
        \/ AllocIntoRaw(c)
        \/ \E o \in owned \cup PageAllocs : DeallocBegin(c, o)
        \/ DeallocEarlyLock(c)
        \/ DeallocEarly(c)
        \/ DeallocCheck(c)
        \/ RecycleLock(c)
        \/ Recycle(c)
        \/ Return(c)

Spec == Init /\ [][Next]_vars

(***************************************************************************)
(* The Slab on its own: one context that holds slot handles calls          *)
(* new_slot and recycle_slot on the slabs, one call after the other.       *)
(* call[Driver] is the record of the last call.                            *)
(***************************************************************************)
Driver == CHOOSE c \in Cpus : \A d \in Cpus : c <= d

SlabNewSlot(s) ==
    /\ pc[Driver] = "idle"
    /\ Slab_new_slot(s)
    /\ call' = [call EXCEPT ![Driver] =
          [NoCall EXCEPT !.op = "new_slot", !.slot_size = s,
                         !.ptr = new_slot_result(s)]]
    /\ UNCHANGED boxVars
    /\ owned' = IF new_slot_result(s) = NULL THEN owned
                ELSE owned \cup {[ptr |-> new_slot_result(s), size |-> s]}
    /\ UNCHANGED <<pc, injectVars, earlyVars, slab_lock>>
    /\ UNCHANGED percpuVars

SlabRecycleSlot(o) ==
    /\ pc[Driver] = "idle"
    /\ o \in owned
    /\ UNCHANGED boxVars
    /\ owned' = owned \ {o}
    /\ Slab_recycle_slot(SlabOf(o.ptr), o.ptr)
    /\ LET rec == [NoCall EXCEPT !.op = "recycle_slot",
                       !.slot_size = SlabOf(o.ptr), !.ptr = o.ptr]
       IN \/ /\ call' = [call EXCEPT ![Driver] = rec]
             /\ UNCHANGED pc
          \/ /\ ~recycle_slot_debug_assert(SlabOf(o.ptr))
             /\ call' = [call EXCEPT ![Driver] = [rec EXCEPT !.via = "debug_assert"]]
             /\ pc' = [pc EXCEPT ![Driver] = "panicked"]
    /\ UNCHANGED <<injectVars, earlyVars, slab_lock>>
    /\ UNCHANGED percpuVars

NextSlab ==
    \/ \E s \in Classes : SlabNewSlot(s)
    \/ \E o \in owned : SlabRecycleSlot(o)

SpecSlab == Init /\ [][NextSlab]_vars

(***************************************************************************)
(* Reentrancy on one CPU: the two callers are the contexts of one CPU, a   *)
(* task and an interrupt handler nested over it.  The handler runs to its  *)
(* end before the task goes on, and it comes in only while the task has    *)
(* local interrupts enabled.  alloc and dealloc mask them with             *)
(* irq::disable_local() (mod.rs:120, mod.rs:162) on the way to the slab    *)
(* caches, before the lock of the cache is taken; on the way to the early  *)
(* heap nothing masks them and early_heap.lock() is a plain spin lock.  A  *)
(* panic halts the CPU.                                                    *)
(***************************************************************************)
Task == Driver

Handler == CHOOSE c \in Cpus : c # Task

\* The context is past irq::disable_local() and holds the guard.
IrqMasked(c) == pc[c] \in {"alloc_slab", "alloc_into_raw", "recycle"}

Halted == \E c \in Cpus : pc[c] = "panicked"

\* The first step of a call.
Begin(c) ==
    \/ InjectCallOnce(c)
    \/ \E size \in Sizes, align \in Aligns : AllocBegin(c, size, align)
    \/ \E o \in owned \cup PageAllocs : DeallocBegin(c, o)

\* The later steps of a call, and its return.
Progress(c) ==
    \/ InjectOnceWait(c)
    \/ InjectInit(c)
    \/ InjectSwap(c)
    \/ AllocEarlyLock(c)
    \/ AllocEarly(c)
    \/ AllocSlabLock(c)
    \/ AllocSlab(c)
    \/ AllocIntoRaw(c)
    \/ DeallocEarlyLock(c)
    \/ DeallocEarly(c)
    \/ DeallocCheck(c)
    \/ RecycleLock(c)
    \/ Recycle(c)
    \/ Return(c)

TaskBegin == ~Halted /\ pc[Handler] = "idle" /\ Begin(Task)

TaskProgress == ~Halted /\ pc[Handler] = "idle" /\ Progress(Task)

HandlerBegin == ~Halted /\ ~IrqMasked(Task) /\ Begin(Handler)

HandlerProgress == ~Halted /\ Progress(Handler)

NextIrq ==
    \/ TaskBegin
    \/ TaskProgress
    \/ HandlerBegin
    \/ HandlerProgress

SpecIrq == Init /\ [][NextIrq]_vars

\* Fair scheduling: the handler goes on whenever it can, and the task goes
\* on if it can again and again, that is whenever no handler is nested.
SpecIrqFair ==
    SpecIrq /\ WF_vars(HandlerProgress) /\ SF_vars(TaskProgress)

(***************************************************************************)
(* The Slab and its slot handles: besides new_slot and recycle_slot, the   *)
(* context lets go of a slot handle it holds (Drop for FreeSlabSlot),      *)
(* makes a Box or an Arc of it, and makes a handle of a Box again.         *)
(* slot_next of a slot is the first word of its memory: the link while the *)
(* slot is free, the start of the object while it holds one.  from_arc is  *)
(* left to do in the source.                                               *)
(***************************************************************************)
\* The first word of the objects the context puts into slots.
ObjWords == {0}

\* ArcInner.strong, the first field of the #[repr(C)] ArcInner, as
\* into_arc sets it.
ArcInner_strong == 1

\* FreeSlabSlot::into_box, slab.rs:130-142: obj_ptr.write(obj) over the
\* slot, and self, which the function takes by value and does not
\* forget, is dropped at its end (Drop for FreeSlabSlot).
into_box(o, word, kind) ==
    /\ pc[Driver] = "idle"
    /\ o \in owned
    /\ nr_into_box < MaxBoxed
    /\ owned' = owned \ {o}
    /\ boxes' = boxes \cup {[ptr |-> o.ptr, size |-> o.size, kind |-> kind]}
    /\ nr_into_box' = nr_into_box + 1
    /\ slot_next' = [slot_next EXCEPT ![o.ptr] = word]
    /\ nr_inuse_slots' = [nr_inuse_slots EXCEPT
          ![SlabOf(o.ptr)] = FreeSlabSlot_drop(nr_inuse_slots[SlabOf(o.ptr)])]
    /\ call' = [call EXCEPT ![Driver] =
          [NoCall EXCEPT !.op = "into_" \o kind, !.slot_size = SlabOf(o.ptr),
                         !.ptr = o.ptr]]
    /\ UNCHANGED <<pc, injectVars, earlyVars, slab_lock, free_list,
                   ever_recycled, percpuVars>>

SlabSlotIntoBox(o, word) == into_box(o, word, "box")

\* FreeSlabSlot::into_arc, slab.rs:163-185: into_box of the ArcInner,
\* whose first word is the strong count.
SlabSlotIntoArc(o) == into_box(o, ArcInner_strong, "arc")

\* FreeSlabSlot::from_box, slab.rs:144-161: the object is dropped in
\* place and its address is a slot handle again; the counter of the slab
\* is left alone.
SlabSlotFromBox(b) ==
    /\ pc[Driver] = "idle"
    /\ b \in boxes
    /\ b.kind = "box"
    /\ boxes' = boxes \ {b}
    /\ owned' = owned \cup {[ptr |-> b.ptr, size |-> b.size]}
    /\ call' = [call EXCEPT ![Driver] =
          [NoCall EXCEPT !.op = "from_box", !.slot_size = SlabOf(b.ptr),
                         !.ptr = b.ptr]]
    /\ UNCHANGED <<pc, nr_into_box, injectVars, earlyVars, slabVars,
                   percpuVars>>

SlabDropSlot(o) ==
    /\ pc[Driver] = "idle"
    /\ o \in owned
    /\ UNCHANGED boxVars
    /\ owned' = owned \ {o}
    /\ nr_inuse_slots' = [nr_inuse_slots EXCEPT
          ![SlabOf(o.ptr)] = FreeSlabSlot_drop(nr_inuse_slots[SlabOf(o.ptr)])]
    /\ call' = [call EXCEPT ![Driver] =
          [NoCall EXCEPT !.op = "drop", !.slot_size = SlabOf(o.ptr),
                         !.ptr = o.ptr]]
    /\ UNCHANGED <<pc, injectVars, earlyVars, slab_lock, free_list, slot_next,
                   ever_recycled, percpuVars>>

NextSlabDrop ==
    \/ \E s \in Classes : SlabNewSlot(s)
    \/ \E o \in owned : SlabRecycleSlot(o)
    \/ \E o \in owned : SlabDropSlot(o)
    \/ \E o \in owned, word \in ObjWords : SlabSlotIntoBox(o, word)
    \/ \E o \in owned : SlabSlotIntoArc(o)
    \/ \E b \in boxes : SlabSlotFromBox(b)

SpecSlabDrop == Init /\ [][NextSlabDrop]_vars

(***************************************************************************)
(* The early heap on its own: one context that holds the lock calls alloc  *)
(* and dealloc of EarlyHeapAlloc, one call after the other.  The slots the  *)
(* context holds are given back with dealloc; or, once the free list of    *)
(* their class is empty, they are kept for good by the kernel objects they *)
(* were allocated for and no longer followed.                              *)
(***************************************************************************)
\* The class the context asks the early heap for.
EarlyClasses == {MAX_SLAB_SLOT_SIZE}

EarlyHeapAlloc_alloc(k) ==
    /\ pc[Driver] = "idle"
    /\ Cardinality(owned) < MaxOwned
    /\ early_free' = [early_free EXCEPT ![k] = EarlyAllocFree(k)]
    /\ nr_used_pages' = EarlyAllocUsed(k)
    /\ call' = [call EXCEPT ![Driver] =
          [NoCall EXCEPT !.op = "early_alloc", !.slot_size = k,
                         !.ptr = EarlyAllocPtr(k),
                         !.via = IF early_free[k] # <<>> THEN "free_list"
                                 ELSE IF EarlyCanCarve THEN "carve"
                                 ELSE "exhausted"]]
    /\ UNCHANGED boxVars
    /\ owned' = IF EarlyAllocPtr(k) = NULL THEN owned
                ELSE owned \cup {[ptr |-> EarlyAllocPtr(k), size |-> k]}
    /\ UNCHANGED <<pc, injectVars, early_lock, slabVars, percpuVars>>

EarlyHeapAlloc_dealloc(o) ==
    /\ pc[Driver] = "idle"
    /\ o \in owned
    /\ UNCHANGED boxVars
    /\ owned' = owned \ {o}
    /\ early_free' = [early_free EXCEPT
          ![o.size] = EarlyDeallocFree(o.size, o.ptr)]
    /\ call' = [call EXCEPT ![Driver] =
          [NoCall EXCEPT !.op = "early_dealloc", !.slot_size = o.size,
                         !.ptr = o.ptr]]
    /\ UNCHANGED <<pc, injectVars, early_lock, nr_used_pages, slabVars,
                   percpuVars>>

EarlyKeep(k) ==
    /\ pc[Driver] = "idle"
    /\ early_free[k] = <<>>
    /\ \E o \in owned : o.size = k
    /\ UNCHANGED boxVars
    /\ owned' = {o \in owned : o.size # k}
    /\ call' = [call EXCEPT ![Driver] = NoCall]
    /\ UNCHANGED <<pc, injectVars, earlyVars, slabVars, percpuVars>>

NextEarly ==
    \/ \E k \in EarlyClasses : EarlyHeapAlloc_alloc(k)
    \/ \E o \in owned : EarlyHeapAlloc_dealloc(o)
    \/ \E k \in Classes : EarlyKeep(k)

SpecEarly == Init /\ [][NextEarly]_vars

(***************************************************************************)
(* determine_slot_size on its own: one context calls it with every object  *)
(* size of the slot range.  call[Driver] is the record of the last call.   *)
(***************************************************************************)
ObjSizes == 0 .. MAX_SLAB_SLOT_SIZE

Classify(n) ==
    /\ pc[Driver] = "idle"
    /\ LET rec == [NoCall EXCEPT !.op = "classify", !.size = n]
       IN \/ /\ call' = [call EXCEPT ![Driver] =
                    [rec EXCEPT !.slot_size = determine_slot_size(n),
                                !.via = "ok"]]
             /\ UNCHANGED pc
          \/ /\ ~determine_slot_size_debug_assert(n)
             /\ call' = [call EXCEPT ![Driver] =
                    [rec EXCEPT !.via = "debug_assert"]]
             /\ pc' = [pc EXCEPT ![Driver] = "panicked"]
    /\ UNCHANGED <<owned, boxVars, injectVars, earlyVars, slabVars>>
    /\ UNCHANGED percpuVars

NextClassify == \E n \in ObjSizes : Classify(n)

SpecClassify == Init /\ [][NextClassify]_vars

(***************************************************************************)
(* Slab::new_slot and Slab::recycle_slot on the slab of a CPU's cache.     *)
(***************************************************************************)
CpuSlab_new_slot_result(cpu) == cpu_free_list[cpu]

CpuSlab_new_slot(cpu) ==
    /\ IF cpu_free_list[cpu] = NULL
       THEN UNCHANGED <<cpu_free_list, cpu_nr_inuse_slots>>
       ELSE /\ cpu_free_list' = [cpu_free_list EXCEPT
                  ![cpu] = cpu_slot_next[cpu_free_list[cpu]]]
            /\ cpu_nr_inuse_slots' = [cpu_nr_inuse_slots EXCEPT
                  ![cpu] = new_slot_count(cpu_nr_inuse_slots[cpu])]
    /\ UNCHANGED cpu_slot_next

\* The mutant of CpuSlab_recycle_slot_assert: the identity is not compared.
CpuSlab_recycle_slot_assert_skipped(cpu, ptr) == TRUE

\* The assert! of recycle_slot: the slab the slot records is this slab.
CpuSlab_recycle_slot_assert(cpu, ptr) == owner_cpu(ptr) = cpu

\* The counters after drop(free_slot): Drop for FreeSlabSlot decrements
\* the counter of the slab the slot records.
CpuSlab_after_drop(ptr) ==
    [cpu_nr_inuse_slots EXCEPT ![owner_cpu(ptr)] = FreeSlabSlot_drop(@)]

\* The debug_assert! of recycle_slot on old_count.
CpuSlab_recycle_slot_debug_assert(cpu, ptr) ==
    CpuSlab_after_drop(ptr)[cpu] >= 1

\* Slab::recycle_slot past its assert!: the link of the slot is written,
\* the head is not, and the counter goes down after the drop.
CpuSlab_recycle_slot(cpu, ptr) ==
    /\ cpu_slot_next' = [cpu_slot_next EXCEPT ![ptr] = cpu_free_list[cpu]]
    /\ cpu_nr_inuse_slots' =
          [CpuSlab_after_drop(ptr) EXCEPT ![cpu] = (@ - 1) % U16]
    /\ UNCHANGED cpu_free_list

\* The slots on the free list of a CPU's slab.
RECURSIVE CpuChainSet(_, _)
CpuChainSet(p, fuel) ==
    IF p = NULL \/ fuel = 0 THEN {}
    ELSE {p} \cup CpuChainSet(cpu_slot_next[p], fuel - 1)

CpuFreeSet(cpu) ==
    CpuChainSet(cpu_free_list[cpu], nr_total_slots(LOCAL_SLOT_SIZE) + 1)

(***************************************************************************)
(* Two slabs of one slot size, the slabs of the CPUs' caches: one context  *)
(* calls new_slot on either and recycle_slot on either with a slot it      *)
(* holds, of whichever slab.                                               *)
(***************************************************************************)
CpuSlabNewSlot(cpu) ==
    /\ pc[Driver] = "idle"
    /\ CpuSlab_new_slot(cpu)
    /\ call' = [call EXCEPT ![Driver] =
          [NoCall EXCEPT !.op = "new_slot", !.slot_size = LOCAL_SLOT_SIZE,
                         !.ptr = CpuSlab_new_slot_result(cpu), !.cpu = cpu]]
    /\ UNCHANGED boxVars
    /\ owned' = IF CpuSlab_new_slot_result(cpu) = NULL THEN owned
                ELSE owned \cup {[ptr |-> CpuSlab_new_slot_result(cpu),
                                  size |-> LOCAL_SLOT_SIZE]}
    /\ UNCHANGED <<pc, injectVars, earlyVars, slabVars, cpu_slab_lock,
                   LOCAL_FREE_LIST>>

CpuSlabRecycleSlot(cpu, o) ==
    /\ pc[Driver] = "idle"
    /\ o \in owned
    /\ UNCHANGED boxVars
    /\ owned' = owned \ {o}
    /\ LET rec == [NoCall EXCEPT !.op = "recycle_slot",
                       !.slot_size = LOCAL_SLOT_SIZE, !.ptr = o.ptr,
                       !.cpu = cpu]
       IN IF CpuSlab_recycle_slot_assert(cpu, o.ptr)
          THEN /\ CpuSlab_recycle_slot(cpu, o.ptr)
               /\ \/ /\ call' = [call EXCEPT ![Driver] = rec]
                     /\ UNCHANGED pc
                  \/ /\ ~CpuSlab_recycle_slot_debug_assert(cpu, o.ptr)
                     /\ call' = [call EXCEPT ![Driver] =
                           [rec EXCEPT !.via = "debug_assert"]]
                     /\ pc' = [pc EXCEPT ![Driver] = "panicked"]
          ELSE /\ UNCHANGED <<cpu_free_list, cpu_slot_next>>
               /\ \E unwinds \in PanicUnwinds :
                     cpu_nr_inuse_slots' =
                         IF unwinds THEN CpuSlab_after_drop(o.ptr)
                         ELSE cpu_nr_inuse_slots
               /\ call' = [call EXCEPT ![Driver] =
                     [rec EXCEPT !.via = "assert"]]
               /\ pc' = [pc EXCEPT ![Driver] = "panicked"]
    /\ UNCHANGED <<injectVars, earlyVars, slabVars, cpu_slab_lock,
                   LOCAL_FREE_LIST>>

NextSlabPair ==
    \/ \E cpu \in Cpus : CpuSlabNewSlot(cpu)
    \/ \E cpu \in Cpus, o \in owned : CpuSlabRecycleSlot(cpu, o)

SpecSlabPair == Init /\ [][NextSlabPair]_vars

(***************************************************************************)
(* SinglePageSlabCache::new_slot and ::recycle_slot on a CPU's cache: the  *)
(* locked path of ScalableSlabCache and of LocklessSlabCache.  call.cpu    *)
(* is the CPU whose cache the call works on.                               *)
(***************************************************************************)
\* The mutant of CpuAllocLock: the lock is taken without the wait for its
\* holder.
CpuAllocLockNoWait(c) ==
    /\ pc[c] = "cpu_alloc_lock"
    /\ cpu_slab_lock' = [cpu_slab_lock EXCEPT ![call[c].cpu] = c]
    /\ pc' = [pc EXCEPT ![c] = "cpu_alloc"]
    /\ UNCHANGED <<call, owned, boxVars, injectVars, earlyVars, slabVars,
                   cpu_free_list, cpu_slot_next, cpu_nr_inuse_slots,
                   LOCAL_FREE_LIST>>

\* self.slab.lock() of new_slot, slab_v1.rs:52.
CpuAllocLock(c) ==
    /\ pc[c] = "cpu_alloc_lock"
    /\ cpu_slab_lock[call[c].cpu] = NoCpu
    /\ cpu_slab_lock' = [cpu_slab_lock EXCEPT ![call[c].cpu] = c]
    /\ pc' = [pc EXCEPT ![c] = "cpu_alloc"]
    /\ UNCHANGED <<call, owned, boxVars, injectVars, earlyVars, slabVars,
                   cpu_free_list, cpu_slot_next, cpu_nr_inuse_slots,
                   LOCAL_FREE_LIST>>

CpuAlloc(c) ==
    /\ pc[c] = "cpu_alloc"
    /\ cpu_slab_lock[call[c].cpu] = c
    /\ cpu_slab_lock' = [cpu_slab_lock EXCEPT ![call[c].cpu] = NoCpu]
    /\ CpuSlab_new_slot(call[c].cpu)
    /\ Finish(c, "slab", CpuSlab_new_slot_result(call[c].cpu))
    /\ UNCHANGED <<owned, boxVars, injectVars, earlyVars, slabVars, LOCAL_FREE_LIST>>

CpuRecycleLock(c) ==
    /\ pc[c] = "cpu_recycle_lock"
    /\ cpu_slab_lock[call[c].cpu] = NoCpu
    /\ cpu_slab_lock' = [cpu_slab_lock EXCEPT ![call[c].cpu] = c]
    /\ pc' = [pc EXCEPT ![c] = "cpu_recycle"]
    /\ UNCHANGED <<call, owned, boxVars, injectVars, earlyVars, slabVars,
                   cpu_free_list, cpu_slot_next, cpu_nr_inuse_slots,
                   LOCAL_FREE_LIST>>

\* The guard of slab_v1.rs:58 is dropped when recycle_slot returns; on a
\* panic it is dropped where the panic unwinds, and stays where the build
\* stops.
CpuRecycle(c) ==
    /\ pc[c] = "cpu_recycle"
    /\ cpu_slab_lock[call[c].cpu] = c
    /\ LET released == [cpu_slab_lock EXCEPT ![call[c].cpu] = NoCpu]
       IN IF CpuSlab_recycle_slot_assert(call[c].cpu, call[c].ptr)
          THEN /\ CpuSlab_recycle_slot(call[c].cpu, call[c].ptr)
               /\ \/ /\ Finish(c, "recycle", call[c].ptr)
                     /\ cpu_slab_lock' = released
                  \/ /\ ~CpuSlab_recycle_slot_debug_assert(call[c].cpu,
                                                           call[c].ptr)
                     /\ \E unwinds \in PanicUnwinds :
                           /\ PanicWith(c, "dealloc", "debug_assert",
                                        unwinds)
                           /\ cpu_slab_lock' = IF unwinds THEN released
                                               ELSE cpu_slab_lock
          ELSE /\ UNCHANGED <<cpu_free_list, cpu_slot_next>>
               /\ \E unwinds \in PanicUnwinds :
                     /\ cpu_nr_inuse_slots' =
                           IF unwinds THEN CpuSlab_after_drop(call[c].ptr)
                           ELSE cpu_nr_inuse_slots
                     /\ cpu_slab_lock' = IF unwinds THEN released
                                         ELSE cpu_slab_lock
                     /\ PanicWith(c, "dealloc", "assert", unwinds)
    /\ UNCHANGED <<owned, boxVars, injectVars, earlyVars, slabVars, LOCAL_FREE_LIST>>

(***************************************************************************)
(* ScalableSlabCache, slab_v2.rs: every CPU runs one caller that calls     *)
(* alloc with its pin token and the recycle callback of the slots it       *)
(* holds.                                                                  *)
(***************************************************************************)
V2Alloc(c) ==
    /\ pc[c] = "idle"
    /\ NrOutstanding < MaxOwned
    /\ call' = [call EXCEPT ![c] =
          [NoCall EXCEPT !.op = "alloc", !.size = LOCAL_SLOT_SIZE,
                         !.slot_size = LOCAL_SLOT_SIZE, !.backend = "slab",
                         !.cpu = c]]
    /\ pc' = [pc EXCEPT ![c] = "cpu_alloc_lock"]
    /\ UNCHANGED <<owned, boxVars, injectVars, earlyVars, slabVars, percpuVars>>

V2RecycleSlot(c, o) ==
    /\ pc[c] = "idle"
    /\ o \in owned
    /\ UNCHANGED boxVars
    /\ owned' = owned \ {o}
    /\ call' = [call EXCEPT ![c] =
          [NoCall EXCEPT !.op = "dealloc", !.size = o.size,
                         !.slot_size = LOCAL_SLOT_SIZE, !.ptr = o.ptr,
                         !.backend = "slab", !.cpu = owner_cpu(o.ptr)]]
    /\ pc' = [pc EXCEPT ![c] = "cpu_recycle_lock"]
    /\ UNCHANGED <<injectVars, earlyVars, slabVars, percpuVars>>

NextV2 ==
    \E c \in Cpus :
        \/ V2Alloc(c)
        \/ CpuAllocLock(c)
        \/ CpuAlloc(c)
        \/ \E o \in owned : V2RecycleSlot(c, o)
        \/ CpuRecycleLock(c)
        \/ CpuRecycle(c)
        \/ Return(c)

SpecV2 == InitKernel("slab_v2") /\ [][NextV2]_vars

(***************************************************************************)
(* LocklessSlabCache, slab_v3.rs.  The calls run with the pin token of the *)
(* dispatcher, interrupts masked: the access to the CPU's own list is one  *)
(* step.  FreeSlabSlotList::push and ::pop are left to do in the source;   *)
(* they follow the design, an intrusive list pushed and popped at its      *)
(* head.                                                                   *)
(***************************************************************************)
FreeSlabSlotList_push(list, slot) == <<slot>> \o list

FreeSlabSlotList_pop(list) == IF list = <<>> THEN NULL ELSE Head(list)

FreeSlabSlotList_rest(list) == IF list = <<>> THEN <<>> ELSE Tail(list)

\* The mutant of recycle_slot_fast_path: the test is never taken.
recycle_slot_fast_path_never(owner, current_cpu) == {FALSE}

\* if owner_cpu = pin_cpu_guard.current_cpu(), slab_v3.rs:83: the test is
\* written with = where == is meant.  It comes out as the comparison, or,
\* read as the assignment it is, as taken.
recycle_slot_fast_path(owner, current_cpu) == {owner = current_cpu, TRUE}

\* LocklessSlabCache::alloc: the pop of the local list, and on none the
\* way to the CPU's own cache.
V3Alloc(c) ==
    /\ pc[c] = "idle"
    /\ NrOutstanding < MaxOwned
    /\ LET frame == [NoCall EXCEPT !.op = "alloc", !.size = LOCAL_SLOT_SIZE,
                         !.slot_size = LOCAL_SLOT_SIZE, !.cpu = c]
           free_slot == FreeSlabSlotList_pop(LOCAL_FREE_LIST[c])
       IN IF free_slot # NULL
          THEN /\ LOCAL_FREE_LIST' = [LOCAL_FREE_LIST EXCEPT
                     ![c] = FreeSlabSlotList_rest(LOCAL_FREE_LIST[c])]
               /\ pc' = [pc EXCEPT ![c] = "done"]
               /\ call' = [call EXCEPT ![c] =
                     [frame EXCEPT !.backend = "local", !.via = "local",
                                   !.ptr = free_slot]]
          ELSE /\ UNCHANGED LOCAL_FREE_LIST
               /\ pc' = [pc EXCEPT ![c] = "cpu_alloc_lock"]
               /\ call' = [call EXCEPT ![c] =
                     [frame EXCEPT !.backend = "slab"]]
    /\ UNCHANGED <<owned, boxVars, injectVars, earlyVars, slabVars, cpu_slab_lock,
                   cpu_free_list, cpu_slot_next, cpu_nr_inuse_slots>>

\* The recycle callback of slab_v3.rs:28-38 and
\* LocklessSlabCache::recycle_slot.
V3RecycleSlot(c, o) ==
    /\ pc[c] = "idle"
    /\ o \in owned
    /\ UNCHANGED boxVars
    /\ owned' = owned \ {o}
    /\ LET frame == [NoCall EXCEPT !.op = "dealloc", !.size = o.size,
                         !.slot_size = LOCAL_SLOT_SIZE, !.ptr = o.ptr]
       IN \E fast \in recycle_slot_fast_path(owner_cpu(o.ptr), c) :
            IF fast
            THEN /\ LOCAL_FREE_LIST' = [LOCAL_FREE_LIST EXCEPT
                       ![c] = FreeSlabSlotList_push(LOCAL_FREE_LIST[c], o.ptr)]
                 /\ pc' = [pc EXCEPT ![c] = "done"]
                 /\ call' = [call EXCEPT ![c] =
                       [frame EXCEPT !.backend = "local", !.via = "local",
                                     !.cpu = c]]
            ELSE /\ UNCHANGED LOCAL_FREE_LIST
                 /\ pc' = [pc EXCEPT ![c] = "cpu_recycle_lock"]
                 /\ call' = [call EXCEPT ![c] =
                       [frame EXCEPT !.backend = "slab",
                                     !.cpu = owner_cpu(o.ptr)]]
    /\ UNCHANGED <<injectVars, earlyVars, slabVars, cpu_slab_lock,
                   cpu_free_list, cpu_slot_next, cpu_nr_inuse_slots>>

NextV3 ==
    \E c \in Cpus :
        \/ V3Alloc(c)
        \/ CpuAllocLock(c)
        \/ CpuAlloc(c)
        \/ \E o \in owned : V3RecycleSlot(c, o)
        \/ CpuRecycleLock(c)
        \/ CpuRecycle(c)
        \/ Return(c)

SpecV3 == InitKernel("slab_v3") /\ [][NextV3]_vars

(***************************************************************************)
(* The three kernels side by side.  Each one injects the caches of its     *)
(* strategy in its init(); the callers then go through the alloc and the   *)
(* recycle callback of that strategy.  For slab_v1 these are               *)
(* SinglePageSlabCache::alloc, slab_v1.rs:64-68, and the callback of       *)
(* slab_v1.rs:19-25, on the one cache of each slot size.                   *)
(***************************************************************************)
V1Alloc(c, slot_size) ==
    /\ pc[c] = "idle"
    /\ NrOutstanding < MaxOwned
    /\ call' = [call EXCEPT ![c] =
          [NoCall EXCEPT !.op = "alloc", !.size = slot_size,
                         !.slot_size = slot_size, !.backend = "slab"]]
    /\ pc' = [pc EXCEPT ![c] = "alloc_slab_lock"]
    /\ UNCHANGED <<owned, boxVars, injectVars, earlyVars, slabVars, percpuVars>>

\* SinglePageSlabCache::new_slot under the lock, slab_v1.rs:51-55: the
\* Option of Slab::new_slot is what alloc returns.
V1NewSlot(c) ==
    /\ pc[c] = "alloc_slab"
    /\ LET s == call[c].slot_size
       IN /\ slab_lock[s] = c
          /\ slab_lock' = [slab_lock EXCEPT ![s] = NoCpu]
          /\ Slab_new_slot(s)
          /\ Finish(c, "slab", new_slot_result(s))
    /\ UNCHANGED <<owned, boxVars, injectVars, earlyVars, percpuVars>>

\* The callback passes the slot to the cache of the slot's size.
V1RecycleSlot(c, o) ==
    /\ pc[c] = "idle"
    /\ o \in owned
    /\ UNCHANGED boxVars
    /\ owned' = owned \ {o}
    /\ call' = [call EXCEPT ![c] =
          [NoCall EXCEPT !.op = "dealloc", !.size = o.size,
                         !.slot_size = o.size, !.ptr = o.ptr,
                         !.backend = "slab"]]
    /\ pc' = [pc EXCEPT ![c] = "recycle_lock"]
    /\ UNCHANGED <<injectVars, earlyVars, slabVars, percpuVars>>

NextV1 ==
    \E c \in Cpus :
        \/ \E slot_size \in Classes : V1Alloc(c, slot_size)
        \/ AllocSlabLock(c)
        \/ V1NewSlot(c)
        \/ \E o \in owned : V1RecycleSlot(c, o)
        \/ RecycleLock(c)
        \/ Recycle(c)
        \/ Return(c)

NextStrategies ==
    \/ strategy = "slab_v1" /\ NextV1
    \/ strategy = "slab_v2" /\ NextV2
    \/ strategy = "slab_v3" /\ NextV3

SpecStrategies ==
    (\E kernel \in Strategies : InitKernel(kernel))
      /\ [][NextStrategies]_vars

(***************************************************************************)
(* LocklessSlabCache behind the dispatcher, mod.rs:120-175, with the       *)
(* injected set in use: a task runs on one CPU; the other context is, call *)
(* by call, an interrupt handler nested on the task's CPU or a context on  *)
(* the other CPU.  A handler starts only while the task has not masked     *)
(* the local interrupts, and the task stands still until it has returned.  *)
(* The access of a local free list is two steps: the borrow_mut of the     *)
(* cell, and the push or pop.                                              *)
(***************************************************************************)

\* The context holds the guard of irq::disable_local(), mod.rs:120 or
\* 162: it is taken on the way to the strategy and dropped when alloc or
\* dealloc returns.
LocalIrqMasked(c) == call[c].irq_guard

\* The context has borrowed the cell of a local free list.  In
\* recycle_slot the borrow ends with the push; in alloc the RefMut lives
\* to the end of the function, over the slow path and its lock.
LocalAccess(c) ==
    pc[c] \in {"local_pop", "local_push", "cpu_alloc_lock", "cpu_alloc"}

\* The handler is in a call on the CPU of the task.
HandlerNested == pc[Handler] # "idle" /\ call[Handler].on_cpu = Task

\* The mutant of V3DispatchAlloc: alloc goes to the strategy without
\* irq::disable_local().
V3DispatchAllocNoMask(c, cpu) ==
    /\ pc[c] = "idle"
    /\ current_backend = "slab"
    /\ NrOutstanding < MaxOwned
    /\ pc' = [pc EXCEPT ![c] = "v3_alloc"]
    /\ call' = [call EXCEPT ![c] =
          [NoCall EXCEPT !.op = "alloc", !.size = LOCAL_SLOT_SIZE,
                         !.slot_size = LOCAL_SLOT_SIZE, !.on_cpu = cpu]]
    /\ UNCHANGED <<owned, boxVars, injectVars, earlyVars, slabVars, percpuVars>>

\* HeapAlloc::alloc up to irq::disable_local(), mod.rs:120, on the CPU the
\* context runs on: the arm of the injected set, mod.rs:112-118.
V3DispatchAlloc(c, cpu) ==
    /\ pc[c] = "idle"
    /\ current_backend = "slab"
    /\ NrOutstanding < MaxOwned
    /\ pc' = [pc EXCEPT ![c] = "v3_alloc"]
    /\ call' = [call EXCEPT ![c] =
          [NoCall EXCEPT !.op = "alloc", !.size = LOCAL_SLOT_SIZE,
                         !.slot_size = LOCAL_SLOT_SIZE, !.on_cpu = cpu,
                         !.irq_guard = TRUE]]
    /\ UNCHANGED <<owned, boxVars, injectVars, earlyVars, slabVars, percpuVars>>

\* LocklessSlabCache::alloc, slab_v3.rs:99-100: the cell of the current
\* CPU, and its borrow_mut.
V3AllocBorrow(c) ==
    /\ pc[c] = "v3_alloc"
    /\ pc' = [pc EXCEPT ![c] = "local_pop"]
    /\ call' = [call EXCEPT ![c].cpu = call[c].on_cpu]
    /\ UNCHANGED <<owned, boxVars, injectVars, earlyVars, slabVars, percpuVars>>

\* slab_v3.rs:101-109: the pop and the return of the slot to the
\* dispatcher, and on none the way to the slab of the current CPU.
V3AllocPop(c) ==
    /\ pc[c] = "local_pop"
    /\ LET free_slot == FreeSlabSlotList_pop(LOCAL_FREE_LIST[call[c].cpu])
       IN IF free_slot # NULL
          THEN /\ LOCAL_FREE_LIST' = [LOCAL_FREE_LIST EXCEPT
                     ![call[c].cpu] =
                         FreeSlabSlotList_rest(LOCAL_FREE_LIST[call[c].cpu])]
               /\ pc' = [pc EXCEPT ![c] = "v3_into_raw"]
               /\ call' = [call EXCEPT ![c].backend = "local",
                                       ![c].ptr = free_slot]
          ELSE /\ UNCHANGED LOCAL_FREE_LIST
               /\ pc' = [pc EXCEPT ![c] = "cpu_alloc_lock"]
               /\ call' = [call EXCEPT ![c].backend = "slab",
                                       ![c].cpu = call[c].on_cpu]
    /\ UNCHANGED <<owned, boxVars, injectVars, earlyVars, slabVars, cpu_slab_lock,
                   cpu_free_list, cpu_slot_next, cpu_nr_inuse_slots>>

\* HeapAlloc::dealloc up to irq::disable_local(), mod.rs:162.
V3DispatchDealloc(c, cpu, o) ==
    /\ pc[c] = "idle"
    /\ current_backend = "slab"
    /\ o \in owned
    /\ UNCHANGED boxVars
    /\ owned' = owned \ {o}
    /\ pc' = [pc EXCEPT ![c] = "v3_recycle"]
    /\ call' = [call EXCEPT ![c] =
          [NoCall EXCEPT !.op = "dealloc", !.size = o.size,
                         !.slot_size = LOCAL_SLOT_SIZE, !.ptr = o.ptr,
                         !.on_cpu = cpu, !.irq_guard = TRUE]]
    /\ UNCHANGED <<injectVars, earlyVars, slabVars, percpuVars>>

\* The recycle callback and the test of slab_v3.rs:83: on the fast path
\* the cell of the current CPU and its borrow_mut, else the way to the
\* slab of the owner.
V3RecycleTest(c) ==
    /\ pc[c] = "v3_recycle"
    /\ \E fast \in recycle_slot_fast_path(owner_cpu(call[c].ptr),
                                           call[c].on_cpu) :
          IF fast
          THEN /\ pc' = [pc EXCEPT ![c] = "local_push"]
               /\ call' = [call EXCEPT ![c].backend = "local",
                                       ![c].cpu = call[c].on_cpu]
          ELSE /\ pc' = [pc EXCEPT ![c] = "cpu_recycle_lock"]
               /\ call' = [call EXCEPT ![c].backend = "slab",
                                       ![c].cpu = owner_cpu(call[c].ptr)]
    /\ UNCHANGED <<owned, boxVars, injectVars, earlyVars, slabVars, percpuVars>>

\* slab_v3.rs:86-87: the push and the return.
V3RecyclePush(c) ==
    /\ pc[c] = "local_push"
    /\ LOCAL_FREE_LIST' = [LOCAL_FREE_LIST EXCEPT
          ![call[c].cpu] =
              FreeSlabSlotList_push(LOCAL_FREE_LIST[call[c].cpu], call[c].ptr)]
    /\ Finish(c, "local", call[c].ptr)
    /\ UNCHANGED <<owned, boxVars, injectVars, earlyVars, slabVars, cpu_slab_lock,
                   cpu_free_list, cpu_slot_next, cpu_nr_inuse_slots>>

\* The slow path of alloc, slab_v3.rs:107-110: new_slot of the CPU's slab
\* under its lock (slab_v1.rs:51-55); the guard of the lock and the borrow
\* of the local list are dropped as the Option goes back to the
\* dispatcher.
V3AllocNewSlot(c) ==
    /\ pc[c] = "cpu_alloc"
    /\ cpu_slab_lock[call[c].cpu] = c
    /\ cpu_slab_lock' = [cpu_slab_lock EXCEPT ![call[c].cpu] = NoCpu]
    /\ CpuSlab_new_slot(call[c].cpu)
    /\ pc' = [pc EXCEPT ![c] = "v3_into_raw"]
    /\ call' = [call EXCEPT ![c].ptr = CpuSlab_new_slot_result(call[c].cpu)]
    /\ UNCHANGED <<owned, boxVars, injectVars, earlyVars, slabVars, LOCAL_FREE_LIST>>

\* free_slab_slot.into_raw() of mod.rs:121-132, under the irq guard, and
\* the return of alloc.  On the None of an empty slab the call comes out
\* as a null pointer, or stops where the slot is unwrapped.
V3IntoRaw(c) ==
    /\ pc[c] = "v3_into_raw"
    /\ \/ Finish(c, call[c].backend, call[c].ptr)
       \/ /\ call[c].ptr = NULL
          /\ Panic(c, "alloc", "none_into_raw")
    /\ UNCHANGED <<owned, boxVars, injectVars, earlyVars, slabVars, percpuVars>>

V3Begin(c, cpu) ==
    \/ V3DispatchAlloc(c, cpu)
    \/ \E o \in owned : V3DispatchDealloc(c, cpu, o)

V3Progress(c) ==
    \/ V3AllocBorrow(c)
    \/ V3AllocPop(c)
    \/ CpuAllocLock(c)
    \/ V3AllocNewSlot(c)
    \/ V3IntoRaw(c)
    \/ V3RecycleTest(c)
    \/ V3RecyclePush(c)
    \/ CpuRecycleLock(c)
    \/ CpuRecycle(c)
    \/ Return(c)

V3TaskBegin == ~Halted /\ ~HandlerNested /\ V3Begin(Task, Task)

V3TaskProgress == ~Halted /\ ~HandlerNested /\ V3Progress(Task)

\* An interrupt on the CPU of the task.
V3HandlerBegin == ~Halted /\ ~LocalIrqMasked(Task) /\ V3Begin(Handler, Task)

\* A call on the other CPU.
V3RemoteBegin == ~Halted /\ V3Begin(Handler, Handler)

V3HandlerProgress == ~Halted /\ V3Progress(Handler)

NextV3Irq ==
    \/ V3TaskBegin
    \/ V3TaskProgress
    \/ V3HandlerBegin
    \/ V3RemoteBegin
    \/ V3HandlerProgress

\* The kernel after its init(), slab_v3.rs:8-15: the task has injected
\* the caches, and alloc and dealloc take the arm of the injected set.
InitInjected(kernel) == InitState(kernel, Task)

SpecV3Irq == InitInjected("slab_v3") /\ [][NextV3Irq]_vars

(***************************************************************************)
(* The claims.                                                             *)
(***************************************************************************)
SeqRange(q) == {q[i] : i \in 1 .. Len(q)}

HeldFrom(s) == {o \in owned : o.ptr \in SlabSlots(s)}

\* C1: for every Slab, at every point where no call is in progress on it,
\* the in-use counter plus the length of the free list equals the total
\* number of slots, page size / slot size.
C1_UsedPlusFreeIsTotal ==
    \A s \in Classes :
        slab_lock[s] = NoCpu =>
            nr_inuse_slots[s] + FreeLen(s) = nr_total_slots(s)

\* C3: recycle_slot of a slot on the slab that produced it makes the slot the
\* head of that slab's free list and decrements the in-use counter by
\* exactly one.
C3_RecycleMakesSlotHead ==
    [][\A o \in owned :
          (/\ call'[Driver].op = "recycle_slot"
           /\ call'[Driver].ptr = o.ptr
           /\ o \notin owned')
          => /\ free_list'[SlabOf(o.ptr)] = o.ptr
             /\ nr_inuse_slots'[SlabOf(o.ptr)]
                  = nr_inuse_slots[SlabOf(o.ptr)] - 1]_vars

\* C4: on a slab no slot was returned to yet, every successful new_slot
\* returned a distinct slot and was counted, new_slot succeeds as long as
\* fewer than total slots are taken, and a new_slot that returns none found
\* total slots taken and leaves the in-use counter at total.
C4_TotalTakesThenNone ==
    \A s \in Classes :
        s \notin ever_recycled =>
            /\ nr_inuse_slots[s] = Cardinality(HeldFrom(s))
            /\ nr_inuse_slots[s] <= nr_total_slots(s)
            /\ FreeSet(s) \cap {o.ptr : o \in HeldFrom(s)} = {}
            /\ (nr_inuse_slots[s] < nr_total_slots(s) => free_list[s] # NULL)
            /\ (/\ call[Driver].op = "new_slot"
                /\ call[Driver].slot_size = s
                /\ call[Driver].ptr = NULL)
               => nr_inuse_slots[s] = nr_total_slots(s)

\* C4's case: total slots of the 1024 slab are taken, none was returned,
\* and one more new_slot has just returned none.
C4_Witness ==
    /\ 1024 \notin ever_recycled
    /\ Cardinality(HeldFrom(1024)) = nr_total_slots(1024)
    /\ call[Driver].op = "new_slot"
    /\ call[Driver].slot_size = 1024
    /\ call[Driver].ptr = NULL

\* The alloc calls that have their result and have not returned it yet.
AllocResults ==
    {c \in Cpus : /\ pc[c] = "done"
                  /\ call[c].op = "alloc"
                  /\ call[c].ptr \notin {NULL, PagePtr}}

\* C2: alloc never returns a slot pointer that an earlier alloc returned and
\* that was not passed to dealloc since: not one a caller holds, and not one
\* another alloc is returning at the same time.
C2_ExclusiveOwnership ==
    /\ \A c \in AllocResults : call[c].ptr \notin OwnedPtrs
    /\ \A c, d \in AllocResults : c # d => call[c].ptr # call[d].ptr

\* C2's case: across the injection, with a slot of the early heap still
\* held, an alloc returns a slot of a slab.
C2_Witness ==
    /\ have_injected_slabs
    /\ \E o \in owned : InEarlyPages(o.ptr)
    /\ \E c \in AllocResults : call[c].via = "slab"

\* C5: at most one inject call returns normally; once the flag is set one
\* has, and a call that panics finds that one has.
C5_InjectSucceedsOnce ==
    /\ nr_inject_returns <= 1
    /\ have_injected_slabs => nr_inject_returns = 1
    /\ \A c \in Cpus :
          (pc[c] = "panicked" /\ call[c].op = "inject")
             => nr_inject_returns = 1

\* C5's case: one inject call has returned and another one has panicked.
C5_Witness ==
    /\ nr_inject_returns = 1
    /\ \E c \in Cpus : pc[c] = "panicked" /\ call[c].op = "inject"

\* C6: whenever the flag is set the Once holds the complete set, so a
\* reader that observed the flag set has the set, and no unwrap() of
\* current_backend finds the Once empty.
C6_PublishedBeforeFlag ==
    /\ have_injected_slabs => (once_state = "Complete" /\ slab_caches \in Cpus)
    /\ \A c \in Cpus :
          /\ call[c].via # "unwrap_none"
          /\ call[c].backend = "slab"
                => (once_state = "Complete" /\ slab_caches \in Cpus)

\* C6's case: a reader has observed the flag set while an inject call is
\* between its call_once and its swap.
C6_Witness ==
    \E c, d \in Cpus :
        /\ call[c].backend = "slab"
        /\ pc[c] \in {"alloc_slab_lock", "dealloc_check"}
        /\ pc[d] = "inject_swap"

\* C7: every alloc of a size in the range of the slot classes (up to 2048)
\* that starts before the injection is served by the early heap, and every
\* one that starts after it by the injected strategy.
C7_RoutingOneWay ==
    \A c \in Cpus :
        (/\ pc[c] = "done"
         /\ call[c].op = "alloc"
         /\ call[c].size <= MAX_SLAB_SLOT_SIZE)
        => call[c].via = (IF call[c].started_injected THEN "slab" ELSE "early")

\* What holds of the routing: the allocs of a size below 2048 are served
\* as C7 says, and the flag never goes back to false.
RoutingBelowMax ==
    \A c \in Cpus :
        (/\ pc[c] = "done"
         /\ call[c].op = "alloc"
         /\ call[c].size < MAX_SLAB_SLOT)
        => call[c].via = (IF call[c].started_injected THEN "slab" ELSE "early")

FlagOneWay == [][have_injected_slabs => have_injected_slabs']_vars

C9_EarlyPtrNeverRecycled ==
    \A c \in Cpus :
        (\/ pc[c] \in {"recycle_lock", "recycle"}
         \/ call[c].via = "recycle")
        => ~InEarlyPages(call[c].ptr)

\* C9's case: one CPU is in the recycle callback with a slot of a slab while
\* the other has completed, after the injection, the dealloc of a pointer of
\* the early heap.
C9_Witness ==
    \E c, d \in Cpus :
        /\ pc[c] = "recycle"
        /\ pc[d] = "done"
        /\ call[d].op = "dealloc"
        /\ call[d].backend = "slab"
        /\ InEarlyPages(call[d].ptr)

\* C10: alloc and dealloc delegate to the page allocator exactly when the
\* size is above 2048; a size of 2048 is served by the slot-based backend.
C10_DelegateIffAbove2048 ==
    \A c \in Cpus :
        (pc[c] = "done" /\ call[c].op \in {"alloc", "dealloc"})
        => (call[c].via = "page" <=> call[c].size > MAX_SLAB_SLOT_SIZE)

\* C11: for every n in 0 .. 2048, determine_slot_size(n) returns the
\* smallest size class (a power of two in 16 .. 2048) that is at least
\* max(n, 16).
C11_ClassifySmallestClass ==
    call[Driver].op = "classify" =>
        LET n == call[Driver].size
            k == call[Driver].slot_size
            least == IF n > MIN_SLAB_SLOT_SIZE THEN n ELSE MIN_SLAB_SLOT_SIZE
        IN /\ call[Driver].via = "ok"
           /\ k \in SlotSizes
           /\ k >= least
           /\ \A j \in SlotSizes : j >= least => k <= j

\* What holds of determine_slot_size: a call that returns, returns the
\* smallest class that holds the object.
ClassifyValueRight ==
    (call[Driver].op = "classify" /\ call[Driver].via = "ok") =>
        LET n == call[Driver].size
            k == call[Driver].slot_size
            least == IF n > MIN_SLAB_SLOT_SIZE THEN n ELSE MIN_SLAB_SLOT_SIZE
        IN /\ k \in SlotSizes
           /\ k >= least
           /\ \A j \in SlotSizes : j >= least => k <= j

\* C12: an alloc whose backend has no slot to give returns null and does
\* not panic, and an alloc never returns a non-null pointer that is not a
\* slot of its backend.
C12_FailureIsNull ==
    \A c \in Cpus :
        /\ ~(/\ pc[c] = "panicked"
             /\ call[c].op = "alloc"
             /\ call[c].via = "none_into_raw")
        /\ (/\ pc[c] = "done"
            /\ call[c].op = "alloc"
            /\ call[c].ptr # NULL)
           => \/ call[c].via = "page"
              \/ call[c].via = "slab" /\ call[c].ptr \in SlabSlots(call[c].slot_size)
              \/ call[c].via = "early" /\ InEarlyPages(call[c].ptr)

\* A slot of a CPU's slab that a caller holds, or that a call carries: the
\* result of an alloc, or the slot a recycle is about to return.
CpuSlotInUse(p) ==
    \/ p \in OwnedPtrs
    \/ \E c \in Cpus :
          /\ call[c].ptr = p
          /\ \/ call[c].op = "alloc" /\ pc[c] = "done"
             \/ call[c].op = "dealloc"
                  /\ pc[c] \in {"cpu_recycle_lock", "cpu_recycle"}

\* C13: with the lockless cache, the free on one CPU of a slot whose owner
\* is another CPU takes the owner's slab lock and leaves the slot on the
\* free list of the owner's slab (until it is taken again), not on the
\* local free list of the freeing CPU.
C13_CrossCpuFreeGoesToOwnerSlab ==
    \A d \in Cpus :
        (/\ pc[d] = "done"
         /\ call[d].op = "dealloc"
         /\ call[d].ptr \in AllCpuSlabSlots
         /\ owner_cpu(call[d].ptr) # d)
        => /\ call[d].via = "recycle"
           /\ call[d].cpu = owner_cpu(call[d].ptr)
           /\ \/ call[d].ptr \in CpuFreeSet(owner_cpu(call[d].ptr))
              \/ CpuSlotInUse(call[d].ptr)
           /\ call[d].ptr \notin SeqRange(LOCAL_FREE_LIST[d])

\* C14, as claimed: with the lockless cache no CPU ever takes the lock of
\* its own slab, neither in alloc nor in the free of a slot it owns.
C14_SameCpuCycleNoLock ==
    \A c \in Cpus : cpu_slab_lock[c] # c

\* C14, amended: a CPU takes the lock of its own slab only in an alloc that
\* found its local free list empty; an alloc served from the local list
\* and the free of a slot on its owner CPU take no lock.
C14_LockOnlyOnEmptyLocalList ==
    \A c \in Cpus :
        /\ cpu_slab_lock[c] = c
              => (call[c].op = "alloc" /\ LOCAL_FREE_LIST[c] = <<>>)
        /\ (/\ pc[c] = "done"
            /\ call[c].op = "dealloc"
            /\ call[c].ptr \in AllCpuSlabSlots
            /\ owner_cpu(call[c].ptr) = c)
           => (call[c].via = "local" /\ call[c].cpu = c)
        /\ (pc[c] \in {"cpu_alloc_lock", "cpu_alloc"})
              => LOCAL_FREE_LIST[c] = <<>>

\* C14's case: after a free on the same CPU, an alloc is served a slot of
\* the CPU's own slab from the local free list.
C14_Witness ==
    \E c \in Cpus :
        /\ pc[c] = "done"
        /\ call[c].op = "alloc"
        /\ call[c].via = "local"
        /\ owner_cpu(call[c].ptr) = c
        /\ cpu_nr_inuse_slots[c] > 0

\* The places a slot of a CPU's slab is in: in use, on local free lists,
\* on free lists of slabs.
CpuSlotPlaces(p) ==
    (IF CpuSlotInUse(p) THEN 1 ELSE 0)
      + Cardinality(UNION {
            {<<c, i>> : i \in {j \in 1 .. Len(LOCAL_FREE_LIST[c]) :
                                  LOCAL_FREE_LIST[c][j] = p}} : c \in Cpus})
      + Cardinality({c \in Cpus : p \in CpuFreeSet(c)})

\* C15: with the lockless cache every slot is in exactly one place: in use
\* by a caller, on one CPU's local free list, or on the free list of the
\* slab that owns it; no slot is on two lists or twice on one.
C15_SlotInExactlyOnePlace ==
    \A p \in AllCpuSlabSlots :
        /\ CpuSlotPlaces(p) = 1
        /\ \A c \in Cpus : p \in CpuFreeSet(c) => owner_cpu(p) = c

\* What holds of the places: no slot is in two of them.
SlotInAtMostOnePlace ==
    \A p \in AllCpuSlabSlots : CpuSlotPlaces(p) <= 1

\* C16: with the per-CPU cache an alloc on CPU c takes its slot from the
\* slab of c, a recycle works on the slab of the slot's owner under the
\* owner's lock, and every slot is on the free list of the slab that
\* produced it or in use.
C16_SlotsStayWithOwnerSlab ==
    /\ \A c \in Cpus :
          /\ (pc[c] = "done" /\ call[c].op = "alloc" /\ call[c].ptr # NULL)
                => owner_cpu(call[c].ptr) = c
          /\ pc[c] = "cpu_recycle"
                => /\ call[c].cpu = owner_cpu(call[c].ptr)
                   /\ cpu_slab_lock[owner_cpu(call[c].ptr)] = c
    /\ \A p \in AllCpuSlabSlots :
          p \in CpuFreeSet(owner_cpu(p)) \/ CpuSlotInUse(p)

\* What holds of the per-CPU cache: the slab an alloc takes from and the
\* lock a recycle holds are the right ones.
V2OwnerSlabAndLock ==
    \A c \in Cpus :
        /\ (pc[c] = "done" /\ call[c].op = "alloc" /\ call[c].ptr # NULL)
              => owner_cpu(call[c].ptr) = c
        /\ pc[c] = "cpu_recycle"
              => /\ call[c].cpu = owner_cpu(call[c].ptr)
                 /\ cpu_slab_lock[owner_cpu(call[c].ptr)] = c

\* C17: recycle_slot with a slot whose slab is not the slab it is returned
\* to panics, and the check comes before any relinking: the free lists,
\* the links and the in-use counters of both slabs are as they were.
C17_MismatchIsFatalAndUnchanged ==
    [][\A o \in owned :
          (/\ o \notin owned'
           /\ call'[Driver].op = "recycle_slot"
           /\ call'[Driver].ptr = o.ptr
           /\ owner_cpu(o.ptr) # call'[Driver].cpu)
          => /\ pc'[Driver] = "panicked"
             /\ call'[Driver].via = "assert"
             /\ UNCHANGED <<cpu_free_list, cpu_slot_next,
                            cpu_nr_inuse_slots>>]_vars

\* What holds of the rejected call: it panics on the assert! before any
\* relinking, the free lists, the links and the counter of the slab the
\* slot was returned to are as they were, and the counter of the slab the
\* slot belongs to is as it was or, where the panic unwinds and drops the
\* slot handle, one less.
MismatchLeavesListsAlone ==
    [][\A o \in owned :
          (/\ o \notin owned'
           /\ call'[Driver].op = "recycle_slot"
           /\ call'[Driver].ptr = o.ptr
           /\ owner_cpu(o.ptr) # call'[Driver].cpu)
          => /\ pc'[Driver] = "panicked"
             /\ call'[Driver].via = "assert"
             /\ UNCHANGED <<cpu_free_list, cpu_slot_next>>
             /\ cpu_nr_inuse_slots'[call'[Driver].cpu]
                   = cpu_nr_inuse_slots[call'[Driver].cpu]
             /\ cpu_nr_inuse_slots'[owner_cpu(o.ptr)]
                   \in {cpu_nr_inuse_slots[owner_cpu(o.ptr)],
                        FreeSlabSlot_drop(
                            cpu_nr_inuse_slots[owner_cpu(o.ptr)])}]_vars

\* C17's case: with slots of both slabs taken, a slot of one slab was
\* returned to the other and the call has panicked on the assert!.
C17_Witness ==
    /\ pc[Driver] = "panicked"
    /\ call[Driver].op = "recycle_slot"
    /\ call[Driver].via = "assert"
    /\ owner_cpu(call[Driver].ptr) # call[Driver].cpu
    /\ \A cpu \in Cpus : cpu_nr_inuse_slots[cpu] = 1

\* C18: no sequence of new_slot, recycle_slot and releases of slot handles
\* takes the in-use counter of a slab below zero, that is, wraps the
\* 16-bit counter: it stays between zero and the number of slots.
C18_CounterNeverUnderflows ==
    \A s \in Classes : nr_inuse_slots[s] <= nr_total_slots(s)

\* C19: letting go of a slot handle that new_slot returned puts the slot
\* back at the head of the free list of its slab, so that a later new_slot
\* can return it, and takes the in-use counter down by one.
C19_DropReturnsSlot ==
    [][\A o \in owned :
          (/\ o \notin owned'
           /\ call'[Driver].op = "drop"
           /\ call'[Driver].ptr = o.ptr)
          => /\ free_list'[SlabOf(o.ptr)] = o.ptr
             /\ nr_inuse_slots'[SlabOf(o.ptr)]
                  = nr_inuse_slots[SlabOf(o.ptr)] - 1]_vars

\* What holds of the release of a slot handle: the counter goes down by
\* one, modulo 2^16.
DropDecrementsByOne ==
    [][\A o \in owned :
          (/\ o \notin owned'
           /\ call'[Driver].op = "drop"
           /\ call'[Driver].ptr = o.ptr)
          => nr_inuse_slots'[SlabOf(o.ptr)]
               = (nr_inuse_slots[SlabOf(o.ptr)] - 1) % U16]_vars

\* An alloc or dealloc call that has started and not yet returned.
InAllocOrDealloc(c) ==
    /\ call[c].op \in {"alloc", "dealloc"}
    /\ pc[c] \notin {"idle", "done", "panicked"}

\* C20: with fair scheduling every alloc and dealloc call returns, before
\* and after the injection, also when an interrupt handler that allocates
\* or deallocates is nested over a context of the same CPU that is inside
\* a call (a panic, which halts the CPU, aside).
C20_EveryCallReturns ==
    \A c \in Cpus :
        InAllocOrDealloc(c) ~> (pc[c] = "done" \/ Halted)

\* What holds of the calls: one that found the slab caches as its backend
\* returns, nested or not.
OperationalCallsReturn ==
    \A c \in Cpus :
        (InAllocOrDealloc(c) /\ call[c].backend = "slab")
            ~> (pc[c] = "done" \/ Halted)

\* C20, the part on locks: no context waits for a lock that a context it
\* has interrupted holds.
NoSpinOnInterrupted ==
    /\ ~(pc[Handler] \in {"alloc_early_lock", "dealloc_early_lock"}
           /\ early_lock = Task)
    /\ ~(pc[Handler] = "alloc_slab_lock"
           /\ slab_lock[call[Handler].slot_size] = Task)
    /\ ~(pc[Handler] = "recycle_lock"
           /\ slab_lock[SlabOf(call[Handler].ptr)] = Task)

\* What holds of the locks: after the injection no handler waits for a
\* lock of a slab cache that the task holds, and no context holds two
\* locks.
OperationalNoSpinAtMostOneLock ==
    /\ ~(pc[Handler] = "alloc_slab_lock"
           /\ slab_lock[call[Handler].slot_size] = Task)
    /\ ~(pc[Handler] = "recycle_lock"
           /\ slab_lock[SlabOf(call[Handler].ptr)] = Task)
    /\ \A c \in Cpus :
          Cardinality({s \in Classes : slab_lock[s] = c})
            + (IF early_lock = c THEN 1 ELSE 0) <= 1

\* C25: the strategy set in the Once is the one passed by the inject call
\* that returned normally, and an inject call that panics has not
\* installed the set.
C25_InstalledByTheCallThatReturned ==
    \A c \in Cpus :
        /\ (pc[c] = "done" /\ call[c].op = "inject") => slab_caches = c
        /\ (pc[c] = "panicked" /\ call[c].op = "inject") => slab_caches # c

\* What holds of the installation: the set in the Once is written once,
\* by the first call_once, and never replaced.
InstalledOnce ==
    [][slab_caches # NoCpu => slab_caches' = slab_caches]_vars

\* C23: the used-page counter of the early heap never decreases and never
\* exceeds the 256 pages of the static region; an alloc that finds the
\* free list of the class empty and no unused page returns null; and
\* every pointer the early heap returns is one contains_ptr is true of.
C23_EarlyPagesBounded ==
    /\ [](/\ nr_used_pages <= NR_EARLY_HEAP_PAEGS
          /\ \A o \in owned : contains_ptr(o.ptr)
          /\ call[Driver].op = "early_alloc" =>
                /\ call[Driver].via = "exhausted"
                      <=> call[Driver].ptr = NULL
                /\ call[Driver].via = "exhausted"
                      => nr_used_pages = NR_EARLY_HEAP_PAEGS
                /\ call[Driver].ptr # NULL
                      => contains_ptr(call[Driver].ptr))
    /\ [][nr_used_pages' >= nr_used_pages]_vars

\* C23's case: all the pages of the region are used, the free list is
\* empty, and an alloc has just returned null.
C23_Witness ==
    /\ nr_used_pages = NR_EARLY_HEAP_PAEGS
    /\ call[Driver].op = "early_alloc"
    /\ call[Driver].via = "exhausted"
    /\ call[Driver].ptr = NULL
    /\ \A k \in EarlyClasses : early_free[k] = <<>>

\* The slots of a CPU's slab that are on the local free list of some CPU.
CpuSlotsOnLocalLists(cpu) ==
    {p \in CpuSlabSlots(cpu) :
        \E c \in Cpus : \E i \in 1 .. Len(LOCAL_FREE_LIST[c]) :
            LOCAL_FREE_LIST[c][i] = p}

\* The slots of a CPU's slab that callers hold.
CpuSlotsHeld(cpu) == {p \in CpuSlabSlots(cpu) : CpuSlotInUse(p)}

\* C24: with the lockless cache a slot on a local free list is still
\* counted in use by the slab that owns it: the in-use counter of every
\* slab is the number of its slots callers hold plus the number of its
\* slots on local free lists, and the counter plus the length of the
\* slab's free list is the number of slots of the slab.
C24_LocalSlotsCountedInUse ==
    \A cpu \in Cpus :
        /\ cpu_nr_inuse_slots[cpu]
              = Cardinality(CpuSlotsHeld(cpu))
                  + Cardinality(CpuSlotsOnLocalLists(cpu))
        /\ cpu_nr_inuse_slots[cpu] + Cardinality(CpuFreeSet(cpu))
              = nr_total_slots(LOCAL_SLOT_SIZE)

\* What holds of the accounting: a push or a pop of a local free list
\* leaves the in-use counters and the free lists of the slabs as they are.
LocalListLeavesSlabsAlone ==
    [][LOCAL_FREE_LIST' # LOCAL_FREE_LIST
          => /\ cpu_nr_inuse_slots' = cpu_nr_inuse_slots
             /\ cpu_free_list' = cpu_free_list
             /\ cpu_slot_next' = cpu_slot_next]_vars

\* The slab whose metadata the context works on, if it is at the step
\* that calls new_slot or recycle_slot of a slab cache; NULL otherwise.
SlabWorkedOn(c) ==
    IF pc[c] = "alloc_slab" THEN call[c].slot_size
    ELSE IF pc[c] = "recycle" THEN SlabOf(call[c].ptr)
    ELSE NULL

\* The same for the slabs of the CPUs' caches; NoCpu otherwise.
CpuSlabWorkedOn(c) ==
    IF pc[c] \in {"cpu_alloc", "cpu_recycle"} THEN call[c].cpu ELSE NoCpu

\* The metadata of a slab changes in the step.
SlabMetaChanges(s) ==
    \/ free_list'[s] # free_list[s]
    \/ nr_inuse_slots'[s] # nr_inuse_slots[s]
    \/ \E p \in SlabSlots(s) : slot_next'[p] # slot_next[p]

CpuSlabMetaChanges(cpu) ==
    \/ cpu_free_list'[cpu] # cpu_free_list[cpu]
    \/ cpu_nr_inuse_slots'[cpu] # cpu_nr_inuse_slots[cpu]
    \/ \E p \in CpuSlabSlots(cpu) : cpu_slot_next'[p] # cpu_slot_next[p]

\* C22: every change of a slab's free list, links or in-use counter
\* (new_slot, recycle_slot and the decrement of the dropped handle in it)
\* is a step of the context that holds the spin lock of that slab, a
\* context at such a step holds the lock, and no two contexts are at
\* such a step on one slab.
C22_SlabMutatedUnderItsLock ==
    /\ [](\A c \in Cpus :
            /\ SlabWorkedOn(c) # NULL => slab_lock[SlabWorkedOn(c)] = c
            /\ CpuSlabWorkedOn(c) # NoCpu
                  => cpu_slab_lock[CpuSlabWorkedOn(c)] = c
            /\ \A d \in Cpus \ {c} :
                  /\ SlabWorkedOn(c) # NULL
                        => SlabWorkedOn(d) # SlabWorkedOn(c)
                  /\ CpuSlabWorkedOn(c) # NoCpu
                        => CpuSlabWorkedOn(d) # CpuSlabWorkedOn(c))
    /\ [][/\ \A s \in Classes :
              SlabMetaChanges(s)
                => \E c \in Cpus : /\ slab_lock[s] = c
                                   /\ SlabWorkedOn(c) = s
                                   /\ pc'[c] # pc[c]
          /\ \A cpu \in Cpus :
              CpuSlabMetaChanges(cpu)
                => \E c \in Cpus : /\ cpu_slab_lock[cpu] = c
                                   /\ CpuSlabWorkedOn(c) = cpu
                                   /\ pc'[c] # pc[c]]_vars

\* C22's case: one context is in recycle_slot of a slab under its lock
\* while the other waits for that lock to take a slot, and the slab has
\* handed out a slot before.
C22_Witness ==
    \E c \in Cpus : \E d \in Cpus \ {c} :
        /\ pc[c] = "recycle"
        /\ slab_lock[SlabOf(call[c].ptr)] = c
        /\ pc[d] = "alloc_slab_lock"
        /\ call[d].slot_size = SlabOf(call[c].ptr)
        /\ nr_inuse_slots[SlabOf(call[c].ptr)] > 0

\* The same case on the slab of a CPU's cache, under the kernel named: one
\* context is in recycle_slot of the slab under its lock while the other
\* waits for that lock to take a slot.
CpuSlabLockContended(kernel) ==
    \E c \in Cpus : \E d \in Cpus \ {c} :
        /\ strategy = kernel
        /\ pc[c] = "cpu_recycle"
        /\ cpu_slab_lock[call[c].cpu] = c
        /\ pc[d] = "cpu_alloc_lock"
        /\ call[d].cpu = call[c].cpu
        /\ cpu_nr_inuse_slots[call[c].cpu] > 0

CpuSlabLockContendedV2 == CpuSlabLockContended("slab_v2")

CpuSlabLockContendedV3 == CpuSlabLockContended("slab_v3")

\* C21: with the lockless cache behind the dispatcher, a context that has
\* borrowed a local free list runs on the CPU of that list and has the
\* local interrupts masked, from the borrow to the push or pop; no two
\* contexts have the same local free list borrowed; and a local free list
\* changes only in the push or pop of such a context.
C21_LocalListAccessExclusive ==
    /\ [](\A c \in Cpus :
            LocalAccess(c)
              => /\ call[c].cpu = call[c].on_cpu
                 /\ LocalIrqMasked(c)
                 /\ \A d \in Cpus \ {c} :
                       LocalAccess(d) => call[d].cpu # call[c].cpu
                 /\ c = Task => ~HandlerNested)
    /\ [][\A cpu \in Cpus :
            LOCAL_FREE_LIST'[cpu] # LOCAL_FREE_LIST[cpu]
              => \E c \in Cpus : /\ LocalAccess(c)
                                 /\ call[c].on_cpu = cpu
                                 /\ LocalIrqMasked(c)
                                 /\ pc'[c] # pc[c]]_vars

\* C21's case: a handler nested on the task's CPU has borrowed the local
\* free list of that CPU, on which the task has pushed a slot.
C21_Witness ==
    /\ HandlerNested
    /\ pc[Handler] = "local_pop"
    /\ call[Handler].cpu = Task
    /\ LOCAL_FREE_LIST[Task] # <<>>

\* The other case: the task and the context on the other CPU have each
\* their own list borrowed at once.
BothCpusInLocalAccess ==
    /\ LocalAccess(Task)
    /\ LocalAccess(Handler)
    /\ call[Handler].on_cpu # Task

\* No two contexts have one local free list borrowed.
LocalListBorrowedOnce ==
    \A c \in Cpus : \A d \in Cpus \ {c} :
        (LocalAccess(c) /\ LocalAccess(d)) => call[d].cpu # call[c].cpu

====
